---- MODULE Spec2Model ----
(***************************************************************************)
(* Verification model of crowbond-scale: the XtremScale UDP link           *)
(* (connection validation, heartbeat, reconnection, frame decoding) and    *)
(* the ScaleManager registry (weight de-duplication, add/remove, retry).   *)
(*                                                                         *)
(* The module holds several state machines over disjoint variable groups:  *)
(*   SpecWeight    ScaleManager.handleWeightUpdate and the provider calls  *)
(*   SpecFrame     XtremScale.handleMessage (receive buffer, framing)      *)
(*   Spec          one XtremScale link with the registry's retry timer     *)
(*   SpecBackoff   the link under repeated socket errors (backoff range)   *)
(*   SpecCommand   the link with sendCommand / start / stop / getWeight    *)
(*   SpecHeartbeat the link with its heartbeat watchdog                    *)
(*   SpecGetWeight the link with one getWeight() call and its timers       *)
(*   SpecClose     the link closed by removeScale, close() observed        *)
(*   SpecLive      Spec under fair scheduling of timers and replies        *)
(*   SpecRegistry  ScaleManager.addScale / removeScale over link objects   *)
(*   SpecProbe     XtremScale.getScaleId and its HTTP identity probe       *)
(*   SpecManager   ScaleManager's calls by id, fan-out and event handlers  *)
(*   SpecRekey     ScaleManager's re-keying after XtremScale.getScaleId    *)
(*   SpecParse     XtremScale.parseWeightData over decoded frames          *)
(***************************************************************************)
EXTENDS Integers, Sequences, FiniteSets, TLC

VARIABLES
    \* ---- ScaleManager weight de-duplication
    lastWeightValues,   \* Map<string,string>: last display forwarded, per scale id
    events,             \* history: weight events delivered to handleWeightUpdate
    \* ---- XtremScale.handleMessage
    rxBuffer,           \* the link's receive buffer (sequence of characters)
    stream,             \* history: every character appended so far
    ends,               \* history: stream length after each handleMessage call
    parsed,             \* history: parseWeightData calls, in order
    \* ---- one XtremScale link and the registry's retry for it
    env,                \* config.env / NODE_ENV: "test" or "production"
    started,            \* addScale has constructed the link and called connect()
    closed,             \* close() has been called on the link
    closedAt,           \* history: number of connect() calls made when close() was called
    shutDown,           \* ScaleManager.shutdown() has run
    heardSince,         \* history: connected, and a datagram was decoded since that handshake
    gw,                 \* this.weightData and the one getWeight() call: promise, timers
    client,             \* this.client: 0 (null) or the socket it references
    isConnected,        \* this.isConnected
    errorCount,         \* this.errorCount
    lastHeartbeat,      \* this.lastHeartbeat: "undefined" or "set"
    lastError,          \* this.lastError: "undefined" or the message of a socket error
    heartbeatTimer,     \* this.heartbeatTimer is running
    reconnectTimer,     \* this.reconnectTimer: <<>> or <<[delay, errorCount]>>
    handlingError,      \* this.handlingError
    streamingMode,      \* this.streamingMode
    att,                \* every connect() call: its closure and its socket
    nAtt,               \* number of connect() calls so far
    handlers,           \* whether the registry has attached its listeners to the link
    registered,         \* the registry map holds the link
    regTimer,           \* ScaleManager.reconnectionTimers holds a timer for it
    regPhase,           \* the registry retry callback: "idle" or "streaming"
    last,               \* the handler that ran last and what it emitted
    \* ---- ScaleManager registry over the links of one device
    scales,             \* Map<string, XtremScale>: key -> link, 0 when absent
    links,              \* every XtremScale constructed for the device: where it stands
    addCalls,           \* history: the addScale calls made for the device's config
    \* ---- XtremScale.getScaleId
    idProbe,            \* the HTTP identity probe of one link and what getScaleId made of it
    \* ---- ScaleManager over several links and the real-time provider
    mgr,                \* scales, streamingScales, reconnectionTimers, and the last call or event
    \* ---- XtremScale.parseWeightData
    decoded             \* this.weightData, and the last frame parsed with the events it emitted

weightVars == <<lastWeightValues, events>>
frameVars  == <<rxBuffer, stream, ends, parsed>>
linkVars   == <<env, started, closed, closedAt, shutDown, heardSince, gw, client, isConnected, errorCount, lastHeartbeat, lastError,
                heartbeatTimer, reconnectTimer, handlingError, streamingMode, att,
                nAtt, handlers, registered, regTimer, regPhase, last>>
regVars    == <<scales, links, addCalls>>
sideVars   == <<idProbe, mgr, decoded>>
vars       == <<lastWeightValues, events, rxBuffer, stream, ends, parsed,
                env, started, closed, closedAt, shutDown, heardSince, gw, client, isConnected, errorCount, lastHeartbeat, lastError,
                heartbeatTimer, reconnectTimer, handlingError, streamingMode, att,
                nAtt, handlers, registered, regTimer, regPhase, last, scales, links, addCalls, idProbe, mgr, decoded>>

Undefined == "undefined"

\* err.message of the error a socket's 'error' event carries.
UdpError == "udp error"

\* Bounds of the model.
MaxEvents == 4        \* weight events delivered to the registry
MaxChunks == 4        \* datagrams handed to handleMessage
MaxConnects == 2      \* connect() calls on the link
MaxBackoffArg == 6    \* largest errorCount the backoff is computed for
MaxErrorCount == 1    \* socket 'error' events raised by the environment
MaxLinks == 3         \* XtremScale objects constructed for one device
MaxAdds == 3          \* addScale calls for the device's config

ScaleIds == {"s1", "s2"}

\* The keys one device can be registered under: config.id || config.ip, and
\* the serial number its web interface reports.
Keys == {"configured", "serial"}

\* A connect() call that has not been made yet.
NoAttempt ==
    [phase |-> "none", caller |-> "none", validated |-> FALSE, vtimer |-> FALSE,
     promise |-> "none", open |-> FALSE, listeners |-> FALSE, bound |-> FALSE]

\* The state of each component right after construction.
\* this.weightData is null and getWeight() has not been called.
NoGetWeight == [weightData |-> FALSE, promise |-> "none", timer |-> FALSE, interval |-> FALSE]

\* The link's id before and after getScaleId, as sequences of tokens.
ConfiguredId == <<"configured">>
Address == <<"address">>

\* No handlers attached yet: the registry's closure variable scaleId is not
\* captured by any listener.
Unattached == <<"unattached">>

\* The probe of a link built from a config whose provisional id
\* (config.id || config.ip) is the given one; keys are the map keys the
\* registry holds the link under, scaleId the id its listeners publish under.
ProbeOf(provisional) ==
    [phase |-> "idle", status |-> 0, header |-> [kind |-> "absent", realm |-> <<>>],
     promise |-> "none", returned |-> <<>>, id |-> provisional,
     provisional |-> provisional, keys |-> {}, scaleId |-> Unattached]

ProbeIdle == idProbe = ProbeOf(ConfiguredId)

\* The ids links are registered under, an id no link is ever registered under,
\* and the empty string.
ManagedIds == {"a", "b"}
MissingId == "missing"
NoId == ""
CallIds == ManagedIds \cup {MissingId, NoId}

\* const retryDelay = 3000
RetryDelay == 3000

\* No entry in this.scales for an id; timer is the id's entry in
\* reconnectionTimers: "none", "own" (its callback holds the link stored under
\* the id) or "stale" (its callback holds a link that was removed); delay is
\* the delay that timer was set with, 0 without a timer.
NoLink ==
    [present |-> FALSE, isConnected |-> FALSE, handlers |-> "none", timer |-> "none",
     delay |-> 0]

\* What a call or an event handler of the registry did.
Quiet ==
    [op |-> "none", id |-> NoId, result |-> "none", message |-> <<>>, called |-> {},
     published |-> {}, unhandled |-> FALSE, listening |-> FALSE, intended |-> FALSE]

ManagerIdle ==
    mgr = [scales |-> [id \in ManagedIds |-> NoLink], streamingScales |-> {}, last |-> Quiet]

\* this.weightData is null and parseWeightData has not been called.
DecoderIdle == decoded = [weightData |-> <<>>, frame |-> <<>>, events |-> <<>>]

SideIdle == ProbeIdle /\ ManagerIdle /\ DecoderIdle

WeightIdle ==
    /\ lastWeightValues = [id \in ScaleIds |-> Undefined]
    /\ events = <<>>

FrameIdle ==
    /\ rxBuffer = <<>>
    /\ stream = <<>>
    /\ ends = <<>>
    /\ parsed = <<>>

LinkIdle ==
    /\ started = FALSE
    /\ closed = FALSE
    /\ closedAt = 0
    /\ shutDown = FALSE
    /\ heardSince = FALSE
    /\ lastError = Undefined
    /\ gw = NoGetWeight
    /\ client = 0
    /\ isConnected = FALSE
    /\ errorCount = 0
    /\ lastHeartbeat = Undefined
    /\ heartbeatTimer = FALSE
    /\ reconnectTimer = <<>>
    /\ handlingError = FALSE
    /\ streamingMode = FALSE
    /\ att = [a \in 1..MaxConnects |-> NoAttempt]
    /\ nAtt = 0
    /\ handlers = FALSE
    /\ registered = FALSE
    /\ regTimer = FALSE
    /\ regPhase = "idle"
    /\ last = [op |-> "none", emits |-> {}]

RegIdle ==
    /\ scales = [k \in Keys |-> 0]
    /\ links = [l \in 1..MaxLinks |-> "none"]
    /\ addCalls = <<>>

(***************************************************************************)
(* ScaleManager.handleWeightUpdate                                         *)
(***************************************************************************)
Displays == {"10.5 kg", "11.0 kg"}

InitWeight ==
    /\ WeightIdle
    /\ FrameIdle
    /\ LinkIdle
    /\ RegIdle
    /\ SideIdle
    /\ env = "production"

\* Index of the latest earlier event of the same scale id, 0 when there is none.
PrevEvent(s, id) ==
    LET c == {k \in 1..Len(s) : s[k].id = id}
    IN  IF c = {} THEN 0 ELSE CHOOSE k \in c : \A j \in c : j <= k

\* handleWeightUpdate up to the await of realTimeProvider.updateWeight:
\* the cached value is read and compared, and on a difference updateWeight is
\* called; the call stays pending until the provider settles it.
HandleWeightUpdate(id, display) ==
    /\ Len(events) < MaxEvents
    /\ LET lastWeight == lastWeightValues[id]
           p == PrevEvent(events, id)
           forwarded == lastWeight # display
       IN  events' = Append(events,
                [id |-> id, display |-> display, cache |-> lastWeight,
                 fwd |-> forwarded,
                 outcome |-> IF forwarded THEN "pending" ELSE "none",
                 prevFailed |-> (p # 0 /\ events[p].outcome = "failed")])
    /\ UNCHANGED lastWeightValues
    /\ UNCHANGED <<frameVars, linkVars, regVars, sideVars>>

\* updateWeight resolved: the code after the await runs,
\* lastWeightValues.set(scaleId, weightData.display).
UpdateWeightResolved(k) ==
    /\ events[k].outcome = "pending"
    /\ lastWeightValues' = [lastWeightValues EXCEPT ![events[k].id] = events[k].display]
    /\ events' = [events EXCEPT ![k].outcome = "ok"]
    /\ UNCHANGED <<frameVars, linkVars, regVars, sideVars>>

\* A rejection handler that records the display all the same.
UpdateWeightRejectedSetsCache(k) ==
    /\ events[k].outcome = "pending"
    /\ lastWeightValues' = [lastWeightValues EXCEPT ![events[k].id] = events[k].display]
    /\ events' = [events EXCEPT ![k].outcome = "failed"]
    /\ UNCHANGED <<frameVars, linkVars, regVars, sideVars>>

\* updateWeight rejected: the error is rethrown before lastWeightValues.set.
UpdateWeightRejected(k) ==
    /\ events[k].outcome = "pending"
    /\ events' = [events EXCEPT ![k].outcome = "failed"]
    /\ UNCHANGED lastWeightValues
    /\ UNCHANGED <<frameVars, linkVars, regVars, sideVars>>

NextWeight ==
    \/ \E id \in ScaleIds, d \in Displays : HandleWeightUpdate(id, d)
    \/ \E k \in 1..Len(events) : UpdateWeightResolved(k)
    \/ \E k \in 1..Len(events) : UpdateWeightRejected(k)

SpecWeight == InitWeight /\ [][NextWeight]_vars

\* Two events of one scale id with no event of that id between them.
Consecutive(i, j) ==
    /\ i < j
    /\ events[i].id = events[j].id
    /\ \A k \in (i+1)..(j-1) : events[k].id # events[i].id

\* C1: two consecutive weight events of one scale id with the same display
\* string produce one updateWeight call, not two, when the publish of the first
\* succeeds - also when the second is delivered while that publish is pending.
C1_OnePublishForEqualDisplays ==
    \A i, j \in 1..Len(events) :
        (Consecutive(i, j) /\ events[i].display = events[j].display
            /\ events[i].fwd /\ events[i].outcome = "ok")
        => ~events[j].fwd

\* C2 (as stated): after a rejected updateWeight the next weight event of that
\* id is forwarded again, whatever its display string.
C2_NextEventAlwaysForwarded ==
    \A k \in 1..Len(events) : events[k].prevFailed => events[k].fwd

\* C2 (amended): a rejection leaves the cached display unchanged, the cache
\* changes only when an updateWeight call resolves (to the display of that
\* call), and an event whose predecessor's forward failed is forwarded exactly
\* when its display differs from the unchanged cached value.
C2_CacheOnlyAfterSuccess ==
    [][ /\ \A k \in 1..Len(events) :
              (events[k].outcome = "pending" /\ events'[k].outcome = "failed")
              => lastWeightValues' = lastWeightValues
        /\ lastWeightValues' # lastWeightValues
              => \E k \in 1..Len(events) :
                    /\ events[k].outcome = "pending" /\ events'[k].outcome = "ok"
                    /\ lastWeightValues' =
                         [lastWeightValues EXCEPT ![events[k].id] = events[k].display]
        /\ Len(events') > Len(events)
              => LET e == events'[Len(events')]
                 IN  e.prevFailed =>
                        (e.fwd <=> e.display # lastWeightValues'[e.id])
      ]_vars

\* A failed forward followed by a repeat of the same display, forwarded again.
C2_Witness ==
    \E i, j \in 1..Len(events) :
        /\ Consecutive(i, j)
        /\ events[i].outcome = "failed"
        /\ events[j].prevFailed
        /\ events[j].display = events[i].display
        /\ events[j].fwd

(***************************************************************************)
(* XtremScale.handleMessage: the receive buffer and STX/ETX framing        *)
(***************************************************************************)
STX == "STX"
ETX == "ETX"

\* A run of payload characters without any marker, long enough for the
\* alternative (no STX/ETX) parsing to accept it.
Filler == [i \in 1..19 |-> "x"]

\* The datagram payloads delivered to handleMessage.
Chunks ==
    { <<STX>>, <<ETX>>, <<"a">>, <<"b">>,
      <<STX, "a">>, <<"b", ETX>>, <<ETX, STX>>,
      <<"a", ETX, STX, "b">>,
      <<STX, "a", ETX, STX, "b", ETX>>,
      Filler }

InitFrame ==
    /\ FrameIdle
    /\ WeightIdle
    /\ LinkIdle
    /\ RegIdle
    /\ SideIdle
    /\ env = "production"

\* String.prototype.includes
Includes(s, c) == \E i \in 1..Len(s) : s[i] = c

\* String.prototype.indexOf(c, from) with 1-based positions; 0 when absent.
IndexOf(s, c, from) ==
    LET hits == {i \in from..Len(s) : s[i] = c}
    IN  IF hits = {} THEN 0 ELSE CHOOSE i \in hits : \A j \in hits : i <= j

\* The extraction loop with the end marker searched from the start of the
\* buffer instead of from the start marker.
RECURSIVE ExtractFramesFromStart(_, _)
ExtractFramesFromStart(buf, out) ==
    IF Includes(buf, STX) /\ Includes(buf, ETX)
    THEN LET stxIndex == IndexOf(buf, STX, 1)
             etxIndex == IndexOf(buf, ETX, 1)
         IN  IF etxIndex > stxIndex
             THEN ExtractFramesFromStart(SubSeq(buf, etxIndex + 1, Len(buf)),
                                Append(out, SubSeq(buf, stxIndex + 1, etxIndex - 1)))
             ELSE [buf |-> buf, out |-> out]
    ELSE [buf |-> buf, out |-> out]

\* while (rxBuffer.includes(STX) && rxBuffer.includes(ETX)) { ... }
RECURSIVE ExtractFrames(_, _)
ExtractFrames(buf, out) ==
    IF Includes(buf, STX) /\ Includes(buf, ETX)
    THEN LET stxIndex == IndexOf(buf, STX, 1)
             etxIndex == IndexOf(buf, ETX, stxIndex)
         IN  IF etxIndex > stxIndex
             THEN ExtractFrames(SubSeq(buf, etxIndex + 1, Len(buf)),
                                Append(out, SubSeq(buf, stxIndex + 1, etxIndex - 1)))
             ELSE [buf |-> buf, out |-> out]
    ELSE [buf |-> buf, out |-> out]

\* An alternative parsing that empties the buffer whether or not the stripped
\* text is long enough to be parsed.
AlternativeParsingClearsAlways(buf) ==
    IF ~Includes(buf, STX) /\ Len(buf) > 4
    THEN LET strippedMessage == SubSeq(buf, 2, Len(buf) - 3)
         IN  IF Len(strippedMessage) >= 15
             THEN [buf |-> <<>>, out |-> <<strippedMessage>>]
             ELSE [buf |-> <<>>, out |-> <<>>]
    ELSE [buf |-> buf, out |-> <<>>]

\* The alternative parsing for a buffer without STX: rxBuffer.substring(1,
\* length - 3) is parsed when it has at least 15 characters, and only then is
\* the buffer emptied.
AlternativeParsing(buf) ==
    IF ~Includes(buf, STX) /\ Len(buf) > 4
    THEN LET strippedMessage == SubSeq(buf, 2, Len(buf) - 3)
         IN  IF Len(strippedMessage) >= 15
             THEN [buf |-> <<>>, out |-> <<strippedMessage>>]
             ELSE [buf |-> buf, out |-> <<>>]
    ELSE [buf |-> buf, out |-> <<>>]

\* handleMessage(message): one datagram, decoded to completion.
HandleMessage(message) ==
    /\ Len(ends) < MaxChunks
    /\ LET call == Len(ends) + 1
           x == ExtractFrames(rxBuffer \o message, <<>>)
           y == AlternativeParsing(x.buf)
       IN  /\ rxBuffer' = y.buf
           /\ parsed' = parsed
                \o [k \in 1..Len(x.out) |->
                       [frame |-> x.out[k], via |-> "stxetx", call |-> call]]
                \o [k \in 1..Len(y.out) |->
                       [frame |-> y.out[k], via |-> "alternative", call |-> call]]
    /\ stream' = stream \o message
    /\ ends' = Append(ends, Len(stream) + Len(message))
    /\ UNCHANGED <<weightVars, linkVars, regVars, sideVars>>

NextFrame == \E message \in Chunks : HandleMessage(message)

SpecFrame == InitFrame /\ [][NextFrame]_vars

\* The delimited frames of a character stream read as a whole: from position
\* pos, the text between the first STX and the first ETX after it, with the
\* position of that ETX, and so on behind it.
RECURSIVE DelimitedFrames(_, _)
DelimitedFrames(s, pos) ==
    LET stx == IndexOf(s, STX, pos)
        etx == IF stx = 0 THEN 0 ELSE IndexOf(s, ETX, stx)
    IN  IF stx = 0 \/ etx = 0 THEN <<>>
        ELSE <<[frame |-> SubSeq(s, stx + 1, etx - 1), etx |-> etx]>>
                \o DelimitedFrames(s, etx + 1)

\* The handleMessage call that appended stream position pos.
CallOf(pos) == CHOOSE c \in 1..Len(ends) : ends[c] >= pos /\ \A d \in 1..(c-1) : ends[d] < pos

ParsedDelimited == SelectSeq(parsed, LAMBDA p : p.via = "stxetx")

\* C3: the STX/ETX-delimited frames are parsed in the order of their closing
\* ETX in the stream, each once, and each by the handleMessage call that
\* delivered its ETX (never before); datagrams are decoded one at a time in
\* arrival order.
C3_FramesInEtxOrder ==
    LET ideal == DelimitedFrames(stream, 1)
    IN  /\ Len(ParsedDelimited) = Len(ideal)
        /\ \A k \in 1..Len(ideal) :
              /\ ParsedDelimited[k].frame = ideal[k].frame
              /\ ParsedDelimited[k].call = CallOf(ideal[k].etx)
        /\ \A k \in 1..(Len(parsed) - 1) : parsed[k].call <= parsed[k+1].call

\* A frame whose STX and ETX came in different datagrams has been parsed,
\* as the second delimited frame or later.
C3_Witness ==
    \E k \in 2..Len(ParsedDelimited) :
        LET f == DelimitedFrames(stream, 1)[k]
        IN  /\ Len(f.frame) >= 1
            /\ CallOf(f.etx - Len(f.frame) - 1) < CallOf(f.etx)
            /\ ParsedDelimited[k].call = CallOf(f.etx)

(***************************************************************************)
(* XtremScale: connect, validation, heartbeat, reconnection, close         *)
(* with ScaleManager's initial connect and background retry for the link   *)
(***************************************************************************)
BaseDelay == 1000
MaxDelay == 5000

InitLink ==
    /\ LinkIdle
    /\ env \in {"test", "production"}
    /\ WeightIdle
    /\ FrameIdle
    /\ RegIdle
    /\ SideIdle

\* The link and registry fields as one record, so that a handler is a function
\* from the state before it to the state after it.
Cur ==
    [client |-> client, isConnected |-> isConnected, errorCount |-> errorCount,
     lastHeartbeat |-> lastHeartbeat, lastError |-> lastError,
     heartbeatTimer |-> heartbeatTimer,
     reconnectTimer |-> reconnectTimer, handlingError |-> handlingError,
     streamingMode |-> streamingMode, att |-> att, nAtt |-> nAtt,
     handlers |-> handlers, registered |-> registered, regTimer |-> regTimer,
     regPhase |-> regPhase, emits |-> {}]

Commit(st, op) ==
    /\ client' = st.client
    /\ isConnected' = st.isConnected
    /\ errorCount' = st.errorCount
    /\ lastHeartbeat' = st.lastHeartbeat
    /\ lastError' = st.lastError
    /\ heartbeatTimer' = st.heartbeatTimer
    /\ reconnectTimer' = st.reconnectTimer
    /\ handlingError' = st.handlingError
    /\ streamingMode' = st.streamingMode
    /\ att' = st.att
    /\ nAtt' = st.nAtt
    /\ handlers' = st.handlers
    /\ registered' = st.registered
    /\ regTimer' = st.regTimer
    /\ regPhase' = st.regPhase
    /\ last' = [op |-> op, emits |-> IF op = "other" THEN {} ELSE st.emits]
    /\ heardSince' = IF op = "handshake" \/ ~st.isConnected THEN FALSE
                   ELSE IF op = "data" THEN TRUE ELSE heardSince
    /\ UNCHANGED <<env, weightVars, frameVars, regVars, sideVars>>

Emit(st, e) == [st EXCEPT !.emits = @ \cup {e}]

RECURSIVE Pow(_, _)
Pow(b, k) == IF k = 0 THEN 1 ELSE b * Pow(b, k - 1)

\* A backoff that keeps doubling from the base delay without the ceiling.
ReconnectDelayUncapped(e) == BaseDelay * Pow(2, e)

\* delay = Math.min(1000 * Math.pow(1.5, Math.max(errorCount - 1, 0)), 5000),
\* computed on the exact fraction 1000 * 3^k / 2^k.
ReconnectDelay(e) ==
    LET k == IF e - 1 > 0 THEN e - 1 ELSE 0
        num == BaseDelay * Pow(3, k)
        den == Pow(2, k)
    IN  IF num >= MaxDelay * den THEN MaxDelay ELSE num \div den

\* scheduleReconnect(): a pending timer is cleared and replaced.
ScheduleReconnect(st) ==
    [st EXCEPT !.reconnectTimer =
        <<[delay |-> ReconnectDelay(st.errorCount), errorCount |-> st.errorCount]>>]

StopHeartbeat(st) == [st EXCEPT !.heartbeatTimer = FALSE]

StartHeartbeat(st) == [StopHeartbeat(st) EXCEPT !.heartbeatTimer = TRUE]

\* A closed socket delivers nothing more: its listeners and its binding are
\* gone with it.
CloseSocket(st, s) ==
    [st EXCEPT !.att[s].open = FALSE, !.att[s].listeners = FALSE, !.att[s].bound = FALSE]

\* if (this.client) { removeAllListeners(); close(); this.client = null; }
TearDownClient(st) ==
    IF st.client # 0
    THEN [CloseSocket(st, st.client) EXCEPT !.client = 0]
    ELSE st

\* What the caller awaiting connect() does when it rejects: the link's own
\* reconnect counts the failure and schedules again; the registry's retry
\* schedules its next retry; addScale rethrows in the test environment and
\* otherwise registers the link and schedules the registry retry.
OnRejected(st, c) ==
    IF c = "link" THEN ScheduleReconnect([st EXCEPT !.errorCount = @ + 1])
    ELSE IF c = "registry" THEN [st EXCEPT !.regTimer = TRUE]
    ELSE IF env = "test" THEN st
    ELSE [st EXCEPT !.registered = TRUE, !.regTimer = TRUE]

Reject(st, a) ==
    IF st.att[a].promise = "pending"
    THEN LET c == st.att[a].caller
         IN  OnRejected(Emit([st EXCEPT !.att[a].promise = "settled",
                                        !.att[a].caller = "none"], "rejected"), c)
    ELSE st

\* What the caller does when connect() resolves: addScale attaches its
\* listeners and registers the link; the registry retry attaches listeners and
\* goes on to startStreaming(scaleId).
OnResolved(st, c) ==
    IF c = "add" THEN [st EXCEPT !.registered = TRUE, !.handlers = TRUE]
    ELSE IF c = "registry" THEN [st EXCEPT !.handlers = TRUE, !.regPhase = "streaming"]
    ELSE st

Resolve(st, a) ==
    IF st.att[a].promise = "pending"
    THEN LET c == st.att[a].caller
         IN  OnResolved(Emit([st EXCEPT !.att[a].promise = "settled",
                                        !.att[a].caller = "none"], "resolved"), c)
    ELSE st

\* connect(): this.client = dgram.createSocket(...), listeners attached, the
\* port probe started; whatever this.client referenced is left as it is.
Connect(st, caller) ==
    LET a == st.nAtt + 1
    IN  [st EXCEPT !.nAtt = a, !.client = a,
                   !.att[a] = [phase |-> "choosing", caller |-> caller,
                               validated |-> FALSE, vtimer |-> FALSE,
                               promise |-> "pending", open |-> TRUE,
                               listeners |-> TRUE, bound |-> FALSE]]

\* The 'error' listener of socket s.
OnError(st, s) ==
    IF st.handlingError THEN st
    ELSE LET e0 == StopHeartbeat([st EXCEPT !.handlingError = TRUE,
                                            !.isConnected = FALSE,
                                            !.errorCount = @ + 1,
                                            !.lastError = UdpError,
                                            !.lastHeartbeat = Undefined])
             e1 == IF st.handlers THEN Emit(e0, "error") ELSE e0
             e2 == Emit(e1, "disconnected")
         IN  IF ~st.att[s].validated
             THEN Reject(ScheduleReconnect([e2 EXCEPT !.att[s].vtimer = FALSE]), s)
             ELSE ScheduleReconnect(e2)

\* An endpoint filter that compares the address only: every datagram passes.
OnMessageAnySource(st, s, fromScale) ==
    IF ~st.att[s].validated
    THEN Resolve(StartHeartbeat(Emit([st EXCEPT !.att[s].validated = TRUE,
                                                !.att[s].vtimer = FALSE,
                                                !.isConnected = TRUE,
                                                !.errorCount = 0],
                                     "connected")), s)
    ELSE Emit([st EXCEPT !.lastHeartbeat = "set"], "decoded")

\* A handler that hands the first datagram to the decoder as well.
OnMessageParsesFirst(st, s, fromScale) ==
    IF ~fromScale THEN st
    ELSE IF ~st.att[s].validated
    THEN Resolve(StartHeartbeat(Emit(Emit([st EXCEPT !.att[s].validated = TRUE,
                                                !.att[s].vtimer = FALSE,
                                                !.isConnected = TRUE,
                                                !.errorCount = 0,
                                                !.lastHeartbeat = "set"],
                                     "connected"), "decoded")), s)
    ELSE Emit([st EXCEPT !.lastHeartbeat = "set"], "decoded")

\* The 'message' listener of socket s; fromScale says whether rinfo is the
\* configured address and port.
OnMessage(st, s, fromScale) ==
    IF ~fromScale THEN st
    ELSE IF ~st.att[s].validated
    THEN Resolve(StartHeartbeat(Emit([st EXCEPT !.att[s].validated = TRUE,
                                                !.att[s].vtimer = FALSE,
                                                !.isConnected = TRUE,
                                                !.errorCount = 0],
                                     "connected")), s)
    ELSE Emit([st EXCEPT !.lastHeartbeat = "set"], "decoded")

\* A validation timeout that gives up without scheduling a reconnection.
OnValidationTimeoutGivesUp(st, a) ==
    LET s0 == [st EXCEPT !.att[a].vtimer = FALSE]
    IN  IF st.att[a].validated THEN s0
        ELSE Reject(TearDownClient([s0 EXCEPT !.isConnected = FALSE]), a)

\* The validation timer of connect() call a.
OnValidationTimeout(st, a) ==
    LET s0 == [st EXCEPT !.att[a].vtimer = FALSE]
    IN  IF st.att[a].validated THEN s0
        ELSE Reject(ScheduleReconnect(TearDownClient([s0 EXCEPT !.isConnected = FALSE])), a)

\* A sendCommand without the connected-state check.
SendCommandUnchecked(st, skip, outcome) ==
    IF st.client = 0 THEN Emit(st, "UDP client not initialized")
    ELSE IF outcome = "ok" THEN Emit(Emit(st, "datagram"), "sendResolved")
    ELSE Emit(st, "sendRejected")

\* A sendCommand that treats a failed send like a socket error.
SendCommandErrorReconnects(st, skip, outcome) ==
    IF ~skip /\ ~st.isConnected THEN Emit(st, "Scale not connected")
    ELSE IF st.client = 0 THEN Emit(st, "UDP client not initialized")
    ELSE IF outcome = "ok" THEN Emit(Emit(st, "datagram"), "sendResolved")
    ELSE ScheduleReconnect(StopHeartbeat(Emit([st EXCEPT !.isConnected = FALSE,
                                                         !.errorCount = @ + 1],
                                              "sendRejected")))

\* sendCommand(command, skipConnectionCheck); outcome is what client.send
\* reports ("ok", or an error passed to its callback or thrown).
SendCommand(st, skip, outcome) ==
    IF ~skip /\ ~st.isConnected THEN Emit(st, "Scale not connected")
    ELSE IF st.client = 0 THEN Emit(st, "UDP client not initialized")
    ELSE IF outcome = "ok" THEN Emit(Emit(st, "datagram"), "sendResolved")
    ELSE Emit(st, "sendRejected")

\* Whether the command a handler has just issued was rejected.
CommandFailed(st) ==
    st.emits \cap {"Scale not connected", "UDP client not initialized", "sendRejected"} # {}

StartStreaming(st, outcome) == SendCommand([st EXCEPT !.streamingMode = TRUE], FALSE, outcome)

\* A stopStreaming that sends the command and leaves the flag as it is.
StopStreamingKeepsFlag(st, outcome) == SendCommand(st, FALSE, outcome)

StopStreaming(st, outcome) == SendCommand([st EXCEPT !.streamingMode = FALSE], FALSE, outcome)

\* getWeight() up to its await of startStreaming(); the stopStreaming() of its
\* timers is a later call of its own.
GetWeight(st, outcome) == StartStreaming(st, outcome)

\* The continuation of chooseAvailablePort: this.client?.bind(..., callback),
\* the callback starting the validation timer and sending the handshake probe
\* with the connected-state check bypassed (not in the test environment).
OnBind(st, a, outcome) ==
    LET t == st.client
    IN  IF t = 0 THEN [st EXCEPT !.att[a].phase = "done"]
        ELSE IF st.att[t].bound THEN Reject([st EXCEPT !.att[a].phase = "done"], a)
        ELSE IF outcome = "bindError" THEN OnError([st EXCEPT !.att[a].phase = "done"], t)
        ELSE LET b == [st EXCEPT !.att[a].phase = "done",
                                 !.att[t].bound = TRUE,
                                 !.att[a].vtimer = TRUE]
                 p == SendCommand(b, TRUE, IF outcome = "ok" THEN "ok" ELSE "error")
             IN  IF env = "test" THEN b
                 ELSE IF "sendRejected" \notin p.emits THEN p
                 ELSE IF outcome = "sendUnreachable"
                 THEN Reject(ScheduleReconnect(TearDownClient(
                          [p EXCEPT !.att[a].vtimer = FALSE, !.isConnected = FALSE])), a)
                 ELSE Reject([p EXCEPT !.att[a].vtimer = FALSE], a)

\* An inactivity handler that leaves the streaming flag and the watchdog as
\* they are.
HandleInactivityKeepsStreaming(st) ==
    ScheduleReconnect(Emit([st EXCEPT !.isConnected = FALSE], "disconnected"))

\* handleInactivity()
HandleInactivity(st) ==
    ScheduleReconnect(Emit(StopHeartbeat([st EXCEPT !.isConnected = FALSE,
                                                    !.streamingMode = FALSE]),
                           "disconnected"))

\* One tick of the heartbeat interval; expired says whether more than the
\* inactivity timeout has passed since lastHeartbeat.
OnHeartbeat(st, expired) ==
    IF ~st.isConnected THEN st
    ELSE IF st.lastHeartbeat = Undefined THEN st
    ELSE IF expired THEN HandleInactivity(st)
    ELSE st

\* The reconnect timer's callback: reconnect().
OnReconnectTimer(st) ==
    Connect(TearDownClient(StopHeartbeat([st EXCEPT !.reconnectTimer = <<>>])), "link")

\* The registry's retry callback up to its await of scale.connect().
OnRegistryTimer(st) == Connect([st EXCEPT !.regTimer = FALSE], "registry")

\* The end of the registry's retry callback: this.startStreaming(scaleId); a
\* failure is caught and schedules the next retry.
OnRegistryStartStreaming(st, sendOk) ==
    LET s0 == [st EXCEPT !.regPhase = "idle"]
    IN  IF ~st.registered THEN [s0 EXCEPT !.regTimer = TRUE]
        ELSE LET s1 == [s0 EXCEPT !.streamingMode = TRUE]
             IN  IF s1.isConnected /\ s1.client # 0 /\ sendOk THEN s1
                 ELSE [s1 EXCEPT !.regTimer = TRUE]

\* close(): timers of the link cleared; when connected and streaming,
\* stopStreaming() is awaited and its failure only logged (outcome is what the
\* send reports); then the socket is closed ('close' listener and close callback
\* run) and the promise resolves.  client.close() on a socket that is not
\* open throws inside the promise executor, which rejects close().
CloseLink(st, outcome) ==
    LET s0 == StopHeartbeat([st EXCEPT !.reconnectTimer = <<>>])
        s1 == IF s0.isConnected /\ s0.streamingMode
              THEN StopStreaming(s0, outcome) ELSE s0
    IN  IF s1.client # 0
        THEN IF ~s1.att[s1.client].open THEN Emit(s1, "closeRejected")
             ELSE Emit(Emit([CloseSocket(s1, s1.client) EXCEPT !.isConnected = FALSE,
                                                              !.client = 0],
                            "disconnected"), "closeResolved")
        ELSE Emit(s1, "closeResolved")

OnClose(st) == CloseLink(st, "ok")

\* shutdown(): the registry's retry timers are cleared, streaming is stopped on
\* every connected link of the map, every link of the map is closed, and the
\* map is cleared.
OnShutdown(st) ==
    LET s0 == [st EXCEPT !.regTimer = FALSE]
        s1 == IF s0.registered /\ s0.isConnected
              THEN [s0 EXCEPT !.streamingMode = FALSE] ELSE s0
    IN  IF s1.registered THEN [OnClose(s1) EXCEPT !.registered = FALSE] ELSE s1

\* ---- actions
AddScale ==
    /\ ~started
    /\ started' = TRUE
    /\ Commit(Connect(Cur, "add"), "other")
    /\ UNCHANGED <<closed, closedAt, shutDown, gw>>

BindAs(a, outcome, op) ==
    /\ att[a].phase = "choosing"
    /\ outcome = "bindError" => errorCount < MaxErrorCount
    /\ Commit(OnBind(Cur, a, outcome), op)
    /\ UNCHANGED <<started, closed, closedAt, shutDown, gw>>

Bind(a, outcome) == BindAs(a, outcome, "other")

Datagram(s, fromScale) ==
    /\ att[s].open /\ att[s].bound /\ att[s].listeners
    /\ Commit(OnMessage(Cur, s, fromScale),
              IF ~fromScale THEN "foreign"
              ELSE IF ~att[s].validated THEN "handshake" ELSE "data")
    /\ UNCHANGED <<started, closed, closedAt, shutDown, gw>>

SocketErrorUpTo(s, cap) ==
    /\ att[s].open /\ att[s].listeners
    /\ errorCount < cap
    /\ Commit(OnError(Cur, s), "error")
    /\ UNCHANGED <<started, closed, closedAt, shutDown, gw>>

SocketError(s) == SocketErrorUpTo(s, MaxErrorCount)

\* The error listener clears handlingError with setImmediate, which runs at the
\* end of the event-loop turn in which the error was delivered: other socket
\* events of that turn can come before it, a timer callback cannot.
ResetHandlingError ==
    /\ handlingError
    /\ Commit([Cur EXCEPT !.handlingError = FALSE], "other")
    /\ UNCHANGED <<started, closed, closedAt, shutDown, gw>>

ValidationTimeout(a) ==
    /\ att[a].vtimer
    /\ ~handlingError
    /\ Commit(OnValidationTimeout(Cur, a), "vtimeout")
    /\ UNCHANGED <<started, closed, closedAt, shutDown, gw>>

HeartbeatTickAs(expired, op) ==
    /\ heartbeatTimer
    /\ ~handlingError
    /\ Commit(OnHeartbeat(Cur, expired), op)
    /\ UNCHANGED <<started, closed, closedAt, shutDown, gw>>

HeartbeatTick(expired) == HeartbeatTickAs(expired, "other")

ReconnectTimerFires ==
    /\ reconnectTimer # <<>>
    /\ nAtt < MaxConnects
    /\ ~handlingError
    /\ Commit(OnReconnectTimer(Cur), "other")
    /\ UNCHANGED <<started, closed, closedAt, shutDown, gw>>

RegistryTimerFires ==
    /\ regTimer
    /\ nAtt < MaxConnects
    /\ ~handlingError
    /\ Commit(OnRegistryTimer(Cur), "other")
    /\ UNCHANGED <<started, closed, closedAt, shutDown, gw>>

RegistryStartStreaming(sendOk) ==
    /\ regPhase = "streaming"
    /\ Commit(OnRegistryStartStreaming(Cur, sendOk), "other")
    /\ UNCHANGED <<started, closed, closedAt, shutDown, gw>>

RemoveScaleAs(outcome, op) ==
    /\ registered
    /\ ~closed
    /\ closed' = TRUE
    /\ closedAt' = nAtt
    /\ LET st == CloseLink(Cur, outcome)
       IN  Commit(IF "closeRejected" \in st.emits THEN st
                  ELSE [st EXCEPT !.registered = FALSE], op)
    /\ UNCHANGED <<started, shutDown, gw>>

RemoveScale == RemoveScaleAs("ok", "other")

\* ScaleManager.shutdown() called directly (the signal handler's path ends the
\* process when it returns): every link in the map is closed, one that is not
\* in the map is left as it is.
Shutdown ==
    /\ started
    /\ ~shutDown
    /\ shutDown' = TRUE
    /\ closed' = (closed \/ registered)
    /\ closedAt' = IF registered /\ ~closed THEN nAtt ELSE closedAt
    /\ Commit(OnShutdown(Cur), "other")
    /\ UNCHANGED <<started, gw>>

Next ==
    \/ AddScale
    \/ \E a \in 1..MaxConnects,
          outcome \in {"ok", "bindError", "sendUnreachable", "sendError"} : Bind(a, outcome)
    \/ \E s \in 1..MaxConnects, fromScale \in BOOLEAN : Datagram(s, fromScale)
    \/ \E s \in 1..MaxConnects : SocketError(s)
    \/ ResetHandlingError
    \/ \E a \in 1..MaxConnects : ValidationTimeout(a)
    \/ \E expired \in BOOLEAN : HeartbeatTick(expired)
    \/ ReconnectTimerFires
    \/ RegistryTimerFires
    \/ \E sendOk \in BOOLEAN : RegistryStartStreaming(sendOk)
    \/ RemoveScale
    \/ Shutdown

Init == InitLink

Spec == Init /\ [][Next]_vars

\* Timers that are pending fire, the port probe comes back, setImmediate
\* runs, and a device that answers gets its reply through to a socket that
\* keeps waiting for it.
Fairness ==
    /\ WF_vars(\E a \in 1..MaxConnects,
                  outcome \in {"ok", "bindError", "sendUnreachable", "sendError"} :
                      Bind(a, outcome))
    /\ WF_vars(\E a \in 1..MaxConnects : ValidationTimeout(a))
    /\ WF_vars(ReconnectTimerFires)
    /\ WF_vars(RegistryTimerFires)
    /\ WF_vars(ResetHandlingError)
    /\ SF_vars(\E s \in 1..MaxConnects : Datagram(s, TRUE) /\ ~att[s].validated)

SpecLive == Init /\ [][Next]_vars /\ Fairness

\* The link under repeated socket errors alone, no timer firing: the error
\* count climbs through the whole range of the backoff.
InitBackoff == InitLink

NextBackoff ==
    \/ AddScale
    \/ \E a \in 1..MaxConnects : Bind(a, "ok")
    \/ \E s \in 1..MaxConnects : Datagram(s, TRUE)
    \/ \E s \in 1..MaxConnects : SocketErrorUpTo(s, MaxBackoffArg)
    \/ ResetHandlingError

SpecBackoff == InitBackoff /\ [][NextBackoff]_vars

\* The link's commands called from outside while the link connects, fails and
\* reconnects; the step records which call it was and what it produced.
SendCommandCall(outcome) ==
    /\ started
    /\ Commit(SendCommand(Cur, FALSE, outcome), "sendCommand")
    /\ UNCHANGED <<started, closed, closedAt, shutDown, gw>>

StartStreamingCall(outcome) ==
    /\ started
    /\ Commit(StartStreaming(Cur, outcome), "startStreaming")
    /\ UNCHANGED <<started, closed, closedAt, shutDown, gw>>

StopStreamingCall(outcome) ==
    /\ started
    /\ Commit(StopStreaming(Cur, outcome), "stopStreaming")
    /\ UNCHANGED <<started, closed, closedAt, shutDown, gw>>

GetWeightCall(outcome) ==
    /\ started
    /\ Commit(GetWeight(Cur, outcome), "getWeight")
    /\ UNCHANGED <<started, closed, closedAt, shutDown, gw>>

InitCommand == InitLink

NextCommand ==
    \/ AddScale
    \/ \E a \in 1..MaxConnects,
          outcome \in {"ok", "bindError", "sendUnreachable", "sendError"} :
              BindAs(a, outcome, "bind")
    \/ \E s \in 1..MaxConnects : Datagram(s, TRUE)
    \/ \E s \in 1..MaxConnects : SocketError(s)
    \/ ResetHandlingError
    \/ \E a \in 1..MaxConnects : ValidationTimeout(a)
    \/ ReconnectTimerFires
    \/ RemoveScale
    \/ \E outcome \in {"ok", "error"} : SendCommandCall(outcome)
    \/ \E outcome \in {"ok", "error"} : StartStreamingCall(outcome)
    \/ \E outcome \in {"ok", "error"} : StopStreamingCall(outcome)
    \/ \E outcome \in {"ok", "error"} : GetWeightCall(outcome)

SpecCommand == InitCommand /\ [][NextCommand]_vars

\* The link with its heartbeat watchdog: every tick records whether it found
\* the inactivity threshold exceeded, and what it emitted.
InitHeartbeat == InitLink

NextHeartbeat ==
    \/ AddScale
    \/ \E a \in 1..MaxConnects : Bind(a, "ok")
    \/ \E s \in 1..MaxConnects : Datagram(s, TRUE)
    \/ \E s \in 1..MaxConnects : SocketError(s)
    \/ ResetHandlingError
    \/ \E a \in 1..MaxConnects : ValidationTimeout(a)
    \/ \E expired \in BOOLEAN :
          HeartbeatTickAs(expired, IF expired THEN "tickExpired" ELSE "tick")
    \/ ReconnectTimerFires
    \/ \E outcome \in {"ok", "error"} : StartStreamingCall(outcome)

SpecHeartbeat == InitHeartbeat /\ [][NextHeartbeat]_vars

\* getWeight(timeout): this.weightData = null; await this.startStreaming();
\* then the promise with its timeout and its 100 ms polling interval.  A
\* rejected startStreaming() rejects getWeight() before either timer exists.
GetWeightBegin(outcome) ==
    /\ started
    /\ gw.promise = "none"
    /\ LET st == GetWeight(Cur, outcome)
       IN  /\ gw' = IF CommandFailed(st)
                    THEN [weightData |-> FALSE, promise |-> "rejectedStart",
                          timer |-> FALSE, interval |-> FALSE]
                    ELSE [weightData |-> FALSE, promise |-> "pending",
                          timer |-> TRUE, interval |-> TRUE]
           /\ Commit(st, "getWeight")
    /\ UNCHANGED <<started, closed, closedAt, shutDown>>

\* A datagram on validated socket s that carries a weight frame:
\* parseWeightData sets this.weightData.
WeightFrame(s) ==
    /\ att[s].open /\ att[s].bound /\ att[s].listeners /\ att[s].validated
    /\ gw' = [gw EXCEPT !.weightData = TRUE]
    /\ Commit(OnMessage(Cur, s, TRUE), "data")
    /\ UNCHANGED <<started, closed, closedAt, shutDown>>

\* A tick of getWeight's polling interval that finds a reading: both timers
\* are cleared, stopStreaming() is awaited, and only then resolve() is called.
GetWeightPoll(outcome) ==
    /\ gw.interval
    /\ gw.weightData
    /\ ~handlingError
    /\ LET st == StopStreaming(Cur, outcome)
       IN  /\ gw' = [gw EXCEPT !.timer = FALSE, !.interval = FALSE,
                               !.promise = IF @ = "pending" /\ ~CommandFailed(st)
                                           THEN "resolved" ELSE @]
           /\ Commit(st, "getWeightPoll")
    /\ UNCHANGED <<started, closed, closedAt, shutDown>>

\* getWeight's timeout: stopStreaming() is awaited, and only then, if there is
\* still no reading, reject() is called.  The polling interval is not cleared.
GetWeightTimeout(outcome) ==
    /\ gw.timer
    /\ ~handlingError
    /\ LET st == StopStreaming(Cur, outcome)
       IN  /\ gw' = [gw EXCEPT !.timer = FALSE,
                               !.promise = IF @ = "pending" /\ ~CommandFailed(st)
                                              /\ ~gw.weightData
                                           THEN "rejectedTimeout" ELSE @]
           /\ Commit(st, "getWeightTimeout")
    /\ UNCHANGED <<started, closed, closedAt, shutDown>>

InitGetWeight == InitLink

NextGetWeight ==
    \/ AddScale
    \/ \E a \in 1..MaxConnects : Bind(a, "ok")
    \/ \E s \in 1..MaxConnects : Datagram(s, TRUE)
    \/ \E s \in 1..MaxConnects : WeightFrame(s)
    \/ \E s \in 1..MaxConnects : SocketError(s)
    \/ ResetHandlingError
    \/ \E expired \in BOOLEAN : HeartbeatTick(expired)
    \/ ReconnectTimerFires
    \/ \E outcome \in {"ok", "error"} : GetWeightBegin(outcome)
    \/ \E outcome \in {"ok", "error"} : GetWeightPoll(outcome)
    \/ \E outcome \in {"ok", "error"} : GetWeightTimeout(outcome)

SpecGetWeight == InitGetWeight /\ [][NextGetWeight]_vars

\* The link that connects, streams, fails and reconnects, and is closed by
\* removeScale at any moment; the close step records what close() produced.
InitClose == InitLink

NextClose ==
    \/ AddScale
    \/ \E a \in 1..MaxConnects,
          outcome \in {"ok", "bindError", "sendUnreachable", "sendError"} : Bind(a, outcome)
    \/ \E s \in 1..MaxConnects : Datagram(s, TRUE)
    \/ \E s \in 1..MaxConnects : SocketError(s)
    \/ ResetHandlingError
    \/ \E a \in 1..MaxConnects : ValidationTimeout(a)
    \/ ReconnectTimerFires
    \/ RegistryTimerFires
    \/ \E sendOk \in BOOLEAN : RegistryStartStreaming(sendOk)
    \/ \E outcome \in {"ok", "error"} : StartStreamingCall(outcome)
    \/ \E outcome \in {"ok", "error"} : RemoveScaleAs(outcome, "close")

SpecClose == InitClose /\ [][NextClose]_vars

(***************************************************************************)
(* Properties of the link                                                  *)
(***************************************************************************)
Attempts == 1..MaxConnects

\* Everything a handler of the link can change, the decoder's buffer included.
linkState ==
    <<client, isConnected, errorCount, lastHeartbeat, heartbeatTimer, reconnectTimer,
      handlingError, streamingMode, att, nAtt, handlers, registered, regTimer,
      regPhase, rxBuffer, parsed>>

\* C4: the first datagram from the configured endpoint on a socket is the
\* handshake confirmation: it is not handed to the decoder and does not touch
\* the last-activity timestamp; it marks the link connected, cancels the
\* validation timer, resets errorCount to 0, starts the heartbeat and resolves
\* the connect() that is pending.  Every later datagram from the endpoint on
\* that socket sets the last-activity timestamp and is handed to the decoder.
C4_FirstDatagramIsHandshake ==
    [][ /\ last'.op = "handshake" =>
            \E s \in Attempts :
                /\ ~att[s].validated /\ att'[s].validated
                /\ isConnected' /\ errorCount' = 0 /\ heartbeatTimer'
                /\ ~att'[s].vtimer
                /\ att[s].promise = "pending" =>
                       att'[s].promise = "settled" /\ "resolved" \in last'.emits
                /\ "connected" \in last'.emits
                /\ "decoded" \notin last'.emits
                /\ UNCHANGED <<lastHeartbeat, rxBuffer, parsed>>
        /\ last'.op = "data" =>
            /\ \E s \in Attempts : att[s].validated /\ att[s].open
            /\ lastHeartbeat' = "set"
            /\ "decoded" \in last'.emits
            /\ UNCHANGED <<att, isConnected, errorCount>> ]_vars

\* A later datagram has been decoded on the socket whose first datagram
\* connected the link.
C4_Witness ==
    /\ last.op = "data" /\ "decoded" \in last.emits
    /\ lastHeartbeat = "set"
    /\ client # 0 /\ att[client].validated /\ att[client].promise = "settled"
    /\ isConnected /\ heartbeatTimer /\ errorCount = 0

\* C5: a datagram whose source address or port is not the configured endpoint
\* changes nothing in the link and emits nothing.
C5_ForeignDatagramIgnored ==
    [][ last'.op = "foreign" => UNCHANGED linkState /\ last'.emits = {} ]_vars

\* A foreign datagram has arrived on a bound socket whose connect() still
\* waits for validation.
C5_Witness ==
    /\ last.op = "foreign"
    /\ \E s \in Attempts :
          /\ att[s].open /\ att[s].bound /\ ~att[s].validated
          /\ att[s].vtimer /\ att[s].promise = "pending"
    /\ ~isConnected /\ lastHeartbeat = Undefined

\* Reconnection attempts scheduled for the link: its own reconnect timer and
\* the registry's retry timer, both of which end in connect() on the link.
PendingReconnects ==
    (IF reconnectTimer # <<>> THEN 1 ELSE 0) + (IF regTimer THEN 1 ELSE 0)

\* C6: when the validation timer of a bound, unvalidated connect() fires, the
\* connect() is rejected, the socket is torn down and exactly one reconnection
\* attempt is scheduled for the link.
C6_ExactlyOneReconnectAfterTimeout ==
    [][ (/\ last'.op = "vtimeout"
         /\ \E a \in Attempts : att[a].vtimer /\ ~att[a].validated /\ ~att'[a].vtimer)
        => /\ client' = 0
           /\ \A s \in Attempts : att[s].open /\ client = s => ~att'[s].open
           /\ PendingReconnects' = 1 ]_vars

\* C9: at most one socket of the link is open, and an open socket is the one
\* the link references.
C9_AtMostOneOpenSocket ==
    /\ Cardinality({s \in Attempts : att[s].open}) <= 1
    /\ \A s \in Attempts : att[s].open => client = s

\* The registry's retry has replaced a socket that is still open and bound.
C9_OrphanSocketReached ==
    /\ att[1].open /\ att[1].bound /\ att[1].listeners
    /\ att[2].open /\ client = 2 /\ att[2].caller = "registry"

\* C8: every scheduled delay is min(1000 * 1.5^max(errorCount - 1, 0), 5000):
\* it lies in [1000, 5000], no smaller error count gives a larger delay, and a
\* handshake puts errorCount, and with it the next delay, back to the minimum.
C8_BackoffCappedAndReset ==
    /\ [](reconnectTimer # <<>> =>
            LET d == reconnectTimer[1].delay
                e == reconnectTimer[1].errorCount
                k == IF e >= 1 THEN e - 1 ELSE 0
            IN  /\ BaseDelay <= d /\ d <= MaxDelay
                /\ IF BaseDelay * Pow(3, k) < MaxDelay * Pow(2, k)
                   THEN d * Pow(2, k) = BaseDelay * Pow(3, k)
                   ELSE d = MaxDelay
                /\ \A f \in 0..e : ReconnectDelay(f) <= d)
    /\ [][ last'.op = "handshake" =>
              errorCount' = 0 /\ ReconnectDelay(errorCount') = BaseDelay ]_vars

\* Errors drove the delay to its ceiling, then a handshake reset the count.
C8_Witness ==
    /\ last.op = "handshake" /\ errorCount = 0 /\ isConnected
    /\ reconnectTimer # <<>>
    /\ reconnectTimer[1].delay = MaxDelay
    /\ reconnectTimer[1].errorCount >= 5

\* A connect attempt is in flight: its promise is not settled, and either its
\* port probe has not come back or its validation timer runs.
ConnectInFlight ==
    \E a \in Attempts :
        /\ att[a].promise = "pending"
        /\ att[a].phase = "choosing" \/ att[a].vtimer

\* C7: from the first connect() until close(), a link that is not connected
\* has a connect attempt in flight or a reconnection timer pending (its own
\* or the registry's retry for it).
C7_NeverGivesUp ==
    (started /\ ~closed /\ ~isConnected) =>
        (ConnectInFlight \/ reconnectTimer # <<>> \/ regTimer)

\* A reconnect has been tried and the link waits, disconnected, for its next
\* timer with no attempt in flight.
C7_Witness ==
    /\ started /\ ~closed /\ ~isConnected
    /\ nAtt >= 2
    /\ ~ConnectInFlight
    /\ reconnectTimer # <<>> \/ regTimer

\* The consequence of C7 under fair scheduling: no disconnected link stays
\* disconnected while connect() calls remain to it.
NeverGivesUpAndReconnects ==
    /\ []C7_NeverGivesUp
    /\ (started /\ ~closed /\ ~isConnected) ~> (isConnected \/ closed \/ nAtt = MaxConnects)

(***************************************************************************)
(* ScaleManager.addScale / removeScale over the links of one device        *)
(***************************************************************************)
InitRegistry ==
    /\ RegIdle
    /\ SideIdle
    /\ env \in {"test", "production"}
    /\ WeightIdle
    /\ FrameIdle
    /\ LinkIdle

\* A link is live from its construction until close() is called on it.
Live(l) == links[l] \notin {"none", "closed"}

Unused == {l \in 1..MaxLinks : links[l] = "none"}

\* An addScale call is between its construction of a link and its return.
AddInProgress == \E l \in 1..MaxLinks : links[l] \in {"connecting", "identifying"}

\* addScale(config) up to its await of scale.connect(): it returns when the map
\* has the configured key, and otherwise constructs a link.
AddScaleCall ==
    /\ Len(addCalls) < MaxAdds
    /\ IF scales["configured"] # 0
       THEN /\ addCalls' = Append(addCalls,
                    [present |-> TRUE, built |-> 0, overlap |-> AddInProgress])
            /\ UNCHANGED links
       ELSE /\ Unused # {}
            /\ LET l == CHOOSE x \in Unused : \A y \in Unused : x <= y
               IN  /\ links' = [links EXCEPT ![l] = "connecting"]
                   /\ addCalls' = Append(addCalls,
                           [present |-> FALSE, built |-> l, overlap |-> AddInProgress])
    /\ UNCHANGED <<scales, env, weightVars, frameVars, sideVars>>
    /\ UNCHANGED <<started, closed, closedAt, shutDown, heardSince, gw, client, isConnected, errorCount, lastHeartbeat, lastError,
                   heartbeatTimer, reconnectTimer, handlingError, streamingMode, att,
                   nAtt, handlers, registered, regTimer, regPhase, last>>

\* scale.connect() resolved: addScale goes on to await scale.getScaleId().
ConnectResolved(l) ==
    /\ links[l] = "connecting"
    /\ links' = [links EXCEPT ![l] = "identifying"]
    /\ UNCHANGED <<scales, addCalls, env, weightVars, frameVars, sideVars>>
    /\ UNCHANGED <<started, closed, closedAt, shutDown, heardSince, gw, client, isConnected, errorCount, lastHeartbeat, lastError,
                   heartbeatTimer, reconnectTimer, handlingError, streamingMode, att,
                   nAtt, handlers, registered, regTimer, regPhase, last>>

\* scale.connect() rejected: addScale rethrows in the test environment, and
\* otherwise stores the link under the configured key and schedules the retry.
ConnectRejected(l) ==
    /\ links[l] = "connecting"
    /\ IF env = "test"
       THEN /\ links' = [links EXCEPT ![l] = "failed"]
            /\ UNCHANGED scales
       ELSE /\ links' = [links EXCEPT ![l] = "retrying"]
            /\ scales' = [scales EXCEPT !["configured"] = l]
    /\ UNCHANGED <<addCalls, env, weightVars, frameVars, sideVars>>
    /\ UNCHANGED <<started, closed, closedAt, shutDown, heardSince, gw, client, isConnected, errorCount, lastHeartbeat, lastError,
                   heartbeatTimer, reconnectTimer, handlingError, streamingMode, att,
                   nAtt, handlers, registered, regTimer, regPhase, last>>

\* The map after getScaleId() settled for link l: with a serial number other
\* than the configured key, the configured key is dropped and the link stored
\* under the serial number.
Rekey(l, gotSerial) ==
    IF gotSerial
    THEN [scales EXCEPT !["configured"] = 0, !["serial"] = l]
    ELSE [scales EXCEPT !["configured"] = l]

\* getScaleId() settled in addScale: the link is stored (scales.set).
Identified(l, gotSerial) ==
    /\ links[l] = "identifying"
    /\ links' = [links EXCEPT ![l] = "added"]
    /\ scales' = Rekey(l, gotSerial)
    /\ UNCHANGED <<addCalls, env, weightVars, frameVars, sideVars>>
    /\ UNCHANGED <<started, closed, closedAt, shutDown, heardSince, gw, client, isConnected, errorCount, lastHeartbeat, lastError,
                   heartbeatTimer, reconnectTimer, handlingError, streamingMode, att,
                   nAtt, handlers, registered, regTimer, regPhase, last>>

\* The registry's retry connected link l and asked for its serial number: the
\* link is stored again only when the serial number differs from the key.
RetryConnected(l, gotSerial) ==
    /\ links[l] = "retrying"
    /\ scales' = IF gotSerial THEN Rekey(l, TRUE) ELSE scales
    /\ links' = [links EXCEPT ![l] = "added"]
    /\ UNCHANGED <<addCalls, env, weightVars, frameVars, sideVars>>
    /\ UNCHANGED <<started, closed, closedAt, shutDown, heardSince, gw, client, isConnected, errorCount, lastHeartbeat, lastError,
                   heartbeatTimer, reconnectTimer, handlingError, streamingMode, att,
                   nAtt, handlers, registered, regTimer, regPhase, last>>

\* removeScale(key): the link under the key is closed and the key deleted.
RemoveScaleCall(k) ==
    /\ scales[k] # 0
    /\ links' = [links EXCEPT ![scales[k]] = "closed"]
    /\ scales' = [scales EXCEPT ![k] = 0]
    /\ UNCHANGED <<addCalls, env, weightVars, frameVars, sideVars>>
    /\ UNCHANGED <<started, closed, closedAt, shutDown, heardSince, gw, client, isConnected, errorCount, lastHeartbeat, lastError,
                   heartbeatTimer, reconnectTimer, handlingError, streamingMode, att,
                   nAtt, handlers, registered, regTimer, regPhase, last>>

NextRegistry ==
    \/ AddScaleCall
    \/ \E l \in 1..MaxLinks : ConnectResolved(l)
    \/ \E l \in 1..MaxLinks : ConnectRejected(l)
    \/ \E l \in 1..MaxLinks, gotSerial \in BOOLEAN : Identified(l, gotSerial)
    \/ \E l \in 1..MaxLinks, gotSerial \in BOOLEAN : RetryConnected(l, gotSerial)
    \/ \E k \in Keys : RemoveScaleCall(k)

SpecRegistry == InitRegistry /\ [][NextRegistry]_vars

\* No addScale call is between its construction of a link and its return.
Quiescent == ~AddInProgress

\* C10: once the addScale and removeScale calls have returned, the device has
\* at most one constructed-and-not-closed link, and every such link is the one
\* the registry map references.
C10_OneLiveLinkPerDevice ==
    Quiescent =>
        /\ Cardinality({l \in 1..MaxLinks : Live(l)}) <= 1
        /\ \A l \in 1..MaxLinks : Live(l) => \E k \in Keys : scales[k] = l

\* In production, a second addScale for the same config went through after
\* the first link was re-keyed to its serial number, and took its place.
C10_RekeyedTwiceReached ==
    /\ env = "production"
    /\ links[1] = "added" /\ links[2] = "added"
    /\ scales["serial"] = 2 /\ scales["configured"] = 0

\* C11: addScale calls for the same config that do not overlap and whose links
\* were all added construct exactly one XtremScale.
C11_SameConfigConstructsOne ==
    (/\ \A l \in 1..MaxLinks : links[l] \in {"none", "added"}
     /\ \A i \in 1..Len(addCalls) : ~addCalls[i].overlap)
    => Cardinality({l \in 1..MaxLinks : links[l] # "none"}) <= 1

\* The part of C11 about a present key: such a call constructs nothing and
\* leaves the map as it is.
AddWithPresentKeyIsNoOp ==
    [][ (Len(addCalls') = Len(addCalls) + 1 /\ addCalls'[Len(addCalls')].present)
        => UNCHANGED <<scales, links>> /\ addCalls'[Len(addCalls')].built = 0 ]_vars

\* A reconnect() of the link is in progress: its connect() has not settled.
ReconnectInProgress ==
    \E a \in Attempts : att[a].caller = "link" /\ att[a].promise = "pending"

\* C12: the connected flag is never true while the link's reconnection timer
\* is pending or a reconnect is in progress.
C12_ConnectedExcludesReconnecting ==
    isConnected => (reconnectTimer = <<>> /\ ~ReconnectInProgress)

\* C13: a connect() that was in flight when close() was called never settles
\* afterwards.
C13_ClosedConnectNeverSettles ==
    [][ \A a \in Attempts :
            (closed /\ a <= closedAt /\ att[a].promise = "pending")
                => att'[a].promise = "pending" ]_vars

\* C14: once close() has been called on the link, no validation, heartbeat or
\* reconnection timer of it is pending, no socket is created for it, and it is
\* not connected.
C14_CloseCancelsEverything ==
    closed =>
        /\ \A a \in Attempts : ~att[a].vtimer
        /\ ~heartbeatTimer
        /\ reconnectTimer = <<>>
        /\ nAtt = closedAt
        /\ ~isConnected

\* After close(), the validation timer that close() left running has fired and
\* scheduled a reconnection, which has created a new socket.
C14_ReconnectAfterCloseReached ==
    /\ closed /\ nAtt > closedAt
    /\ client # 0 /\ att[client].open /\ att[client].caller = "link"

\* C15: after shutdown() no timer remains: no registry retry timer and no
\* validation, heartbeat or reconnection timer of the link.
C15_NoTimerAfterShutdown ==
    shutDown =>
        /\ ~regTimer
        /\ \A a \in Attempts : ~att[a].vtimer
        /\ ~heartbeatTimer
        /\ reconnectTimer = <<>>

\* shutdown() ran while a connect() was in progress; the connect() then failed
\* and its caller scheduled the registry's retry.
C15_RetryScheduledAfterShutdownReached ==
    /\ shutDown /\ regTimer

\* C16 (completion): when shutdown() has run, every socket of the link is
\* closed and the registry no longer holds the link.
C16_ShutdownClosesEverySocket ==
    [][ (~shutDown /\ shutDown') =>
            /\ \A s \in Attempts : ~att'[s].open
            /\ ~registered' ]_vars

\* shutdown() closed the link's current socket and left open a socket that an
\* earlier connect() of the same, registered link had created.
C16_OrphanAfterShutdownReached ==
    /\ shutDown /\ closed /\ closedAt = nAtt /\ client = 0
    /\ \E s \in Attempts : att[s].open

CommandOps == {"sendCommand", "startStreaming", "stopStreaming", "getWeight"}

\* C17: a command on a link that is not connected rejects immediately with
\* 'Scale not connected' and sends no datagram; sendCommand itself changes no
\* field of the link, startStreaming, stopStreaming and getWeight change the
\* streaming flag only.
C17_NotConnectedRejects ==
    [][ (last'.op \in CommandOps /\ ~isConnected) =>
            /\ last'.emits = {"Scale not connected"}
            /\ UNCHANGED <<client, isConnected, errorCount, lastHeartbeat,
                           heartbeatTimer, reconnectTimer, handlingError, att, nAtt,
                           handlers, registered, regTimer, regPhase>>
            /\ last'.op = "sendCommand" => UNCHANGED streamingMode ]_vars

\* A command was rejected on a link whose socket is open and bound but has not
\* been validated.
C17_Witness ==
    /\ last.op \in CommandOps
    /\ last.emits = {"Scale not connected"}
    /\ ~isConnected
    /\ client # 0 /\ att[client].open /\ att[client].bound

\* C18 (as stated): whenever a send reports an error, the connected flag, the
\* error counter, the heartbeat timer and the reconnection timer are unchanged.
C18_SendErrorChangesNothing ==
    [][ "sendRejected" \in last'.emits =>
            UNCHANGED <<isConnected, errorCount, heartbeatTimer, reconnectTimer>> ]_vars

\* C18 (amended): when the send of sendCommand, startStreaming, stopStreaming
\* or getWeight reports an error, that call rejects and nothing else happens:
\* the connected flag, the error counter, the heartbeat, the reconnection
\* timers and the sockets are unchanged.
C18_CommandSendErrorRejectsOnly ==
    [][ (last'.op \in CommandOps /\ "sendRejected" \in last'.emits) =>
            /\ last'.emits = {"sendRejected"}
            /\ UNCHANGED <<client, isConnected, errorCount, lastHeartbeat,
                           heartbeatTimer, reconnectTimer, handlingError, att, nAtt,
                           handlers, registered, regTimer, regPhase>> ]_vars

\* A command's send failed on a connected link whose heartbeat is running.
C18_Witness ==
    /\ last.op \in CommandOps
    /\ "sendRejected" \in last.emits
    /\ isConnected /\ heartbeatTimer

OpenSockets == {s \in Attempts : att[s].open}

\* C19: a socket 'error' event on a connected link makes the link not
\* connected, adds one to the error counter, stops the heartbeat, emits
\* 'disconnected', tears the socket down and schedules a reconnection.
C19_ErrorTearsDownAndReschedules ==
    [][ (last'.op = "error" /\ isConnected) =>
            /\ ~isConnected'
            /\ errorCount' = errorCount + 1
            /\ ~heartbeatTimer'
            /\ "disconnected" \in last'.emits
            /\ reconnectTimer' # <<>>
            /\ Cardinality(OpenSockets') < Cardinality(OpenSockets) ]_vars

\* The link's error was handled, the errored socket is still open and receives
\* a datagram that is decoded while the link is not connected.
C19_DecodesOnErroredSocketReached ==
    /\ last.op = "data"
    /\ ~isConnected
    /\ reconnectTimer # <<>>

\* C20: an 'error' event that fires while an earlier one is being handled
\* changes nothing; an 'error' event that fires after the earlier one has been
\* handled adds exactly one to the error counter, emits 'disconnected' and
\* leaves one reconnection scheduled.
C20_OneCountPerHandledError ==
    [][ last'.op = "error" =>
            IF handlingError
            THEN /\ UNCHANGED <<errorCount, reconnectTimer, isConnected, att, client>>
                 /\ last'.emits = {}
            ELSE /\ errorCount' = errorCount + 1
                 /\ "disconnected" \in last'.emits
                 /\ Len(reconnectTimer') = 1 ]_vars

\* The coalescing alone: while handlingError is set, an 'error' event on any
\* socket of the link is dropped without effect.
ErrorWhileHandlingIsIgnored ==
    [][ (last'.op = "error" /\ handlingError) =>
            /\ UNCHANGED <<client, isConnected, errorCount, lastHeartbeat,
                           heartbeatTimer, reconnectTimer, handlingError,
                           streamingMode, att, nAtt, handlers, registered,
                           regTimer, regPhase>>
            /\ last'.emits = {} ]_vars

\* One 'error' event was counted twice: by the error listener and by the
\* failure handler of the reconnect() whose connect() it rejected.
C20_ErrorCountedTwiceReached ==
    /\ last.op = "error"
    /\ "rejected" \in last.emits
    /\ errorCount = 2
    /\ handlingError

\* C21: a heartbeat tick never declares inactive a connected link on which no
\* datagram has been decoded since the handshake that connected it.
C21_NoInactivityBeforeFirstDatagram ==
    [][ (last'.op \in {"tick", "tickExpired"} /\ isConnected /\ ~heardSince) =>
            /\ isConnected'
            /\ UNCHANGED <<heartbeatTimer, reconnectTimer, streamingMode>> ]_vars

\* The second half of C21: a tick that finds the inactivity threshold not
\* exceeded changes nothing, in streaming mode or out of it.
TickBelowThresholdOnlyLogs ==
    [][ last'.op = "tick" =>
            /\ last'.emits = {}
            /\ UNCHANGED <<client, isConnected, errorCount, lastHeartbeat,
                           heartbeatTimer, reconnectTimer, handlingError,
                           streamingMode, att, nAtt>> ]_vars

\* A reconnected link was declared inactive by the first tick after its
\* handshake, on the timestamp of a datagram received before it reconnected.
C21_InactiveOnStaleTimestampReached ==
    /\ last.op = "tickExpired"
    /\ "disconnected" \in last.emits
    /\ nAtt = 2 /\ att[2].validated

\* C22: a heartbeat tick on a connected link that finds the last received
\* datagram older than the inactivity threshold marks the link disconnected,
\* clears the streaming flag, stops the watchdog, emits 'disconnected' and
\* leaves exactly one reconnection scheduled, with the delay of the unchanged
\* error counter.
C22_InactivityDeclared ==
    [][ (last'.op = "tickExpired" /\ isConnected /\ lastHeartbeat # Undefined) =>
            /\ ~isConnected'
            /\ ~streamingMode'
            /\ ~heartbeatTimer'
            /\ last'.emits = {"disconnected"}
            /\ Len(reconnectTimer') = 1
            /\ reconnectTimer'[1].delay = ReconnectDelay(errorCount)
            /\ errorCount' = errorCount
            /\ UNCHANGED <<client, att, nAtt>> ]_vars

\* A connected link that had received data on its validated socket was
\* declared inactive by a tick.
C22_Witness ==
    /\ last.op = "tickExpired"
    /\ last.emits = {"disconnected"}
    /\ ~isConnected /\ ~streamingMode /\ ~heartbeatTimer
    /\ Len(reconnectTimer) = 1
    /\ client # 0 /\ att[client].validated

\* C23: when the timeout of a waiting getWeight() elapses and no reading has
\* arrived, the call rejects, also on a link that was disconnected meanwhile.
C23_TimeoutRejects ==
    [][ (last'.op = "getWeightTimeout" /\ gw.promise = "pending" /\ ~gw.weightData) =>
            gw'.promise = "rejectedTimeout" ]_vars

\* The timeout has elapsed, no reading has arrived, and the call is still
\* pending with only the polling interval left.
C23_PendingAfterTimeoutReached ==
    /\ gw.promise = "pending"
    /\ ~gw.timer /\ gw.interval /\ ~gw.weightData
    /\ ~isConnected

\* A reading arrived, the poll cleared both timers, the stop command failed:
\* nothing is left that could settle the call.
C23_NeverSettlesReached ==
    /\ gw.promise = "pending"
    /\ ~gw.timer /\ ~gw.interval

GetWeightSettled == {"resolved", "rejectedStart", "rejectedTimeout"}

\* C24 (as stated): whenever getWeight() settles, the link's streaming flag is
\* false.
C24_SettledMeansNotStreaming ==
    [][ (gw.promise \notin GetWeightSettled /\ gw'.promise \in GetWeightSettled) =>
            ~streamingMode' ]_vars

\* C24 (amended): getWeight() clears the cached reading and sends the start
\* command before it waits; when it resolves, or rejects on its timeout, the
\* stop command has been sent in that step and the streaming flag is false;
\* when it rejects because the start command failed, the flag is left true.
C24_StopBeforeSettle ==
    [][ /\ (gw.promise = "none" /\ gw'.promise # "none") =>
                /\ ~gw'.weightData
                /\ streamingMode'
                /\ gw'.promise = "pending" <=> "datagram" \in last'.emits
                /\ gw'.promise = "rejectedStart" <=> "datagram" \notin last'.emits
        /\ (gw.promise = "pending" /\ gw'.promise \in GetWeightSettled) =>
                /\ "datagram" \in last'.emits
                /\ ~streamingMode'
                /\ gw'.promise = "resolved" <=> gw.weightData
                /\ gw'.promise = "rejectedTimeout" <=> ~gw.weightData ]_vars

\* getWeight() has resolved with a reading after its stop command was sent.
C24_Witness ==
    /\ gw.promise = "resolved"
    /\ last.op = "getWeightPoll"
    /\ "datagram" \in last.emits
    /\ ~streamingMode

\* C25: close() never rejects; on a connected, streaming link the stop command
\* is attempted on the still open socket and its failure changes nothing else;
\* when close() resolves the link's socket is closed, this.client is null and
\* the link is not connected.
C25_CloseResolvesDisconnected ==
    [][ last'.op = "close" =>
            /\ "closeRejected" \notin last'.emits
            /\ "closeResolved" \in last'.emits
            /\ (isConnected /\ streamingMode /\ client # 0) =>
                   /\ ("datagram" \in last'.emits) # ("sendRejected" \in last'.emits)
                   /\ ~streamingMode'
            /\ client # 0 => ~att'[client].open
            /\ client' = 0
            /\ ~isConnected' ]_vars

\* The part of C25 about the promise and the referenced socket: close() never
\* rejects, a failed stop command is swallowed, and the socket this.client
\* references is closed when close() resolves.
CloseNeverRejects ==
    [][ last'.op = "close" =>
            /\ "closeRejected" \notin last'.emits
            /\ "closeResolved" \in last'.emits
            /\ (isConnected /\ streamingMode /\ client # 0) =>
                   /\ ("datagram" \in last'.emits) # ("sendRejected" \in last'.emits)
                   /\ ~streamingMode'
            /\ client # 0 => ~att'[client].open
            /\ client' = 0
            /\ ~heartbeatTimer' /\ reconnectTimer' = <<>> ]_vars

\* close() has resolved and the link still reports isConnected: it had been
\* connected by a socket that this.client no longer referenced.
C25_ConnectedAfterCloseReached ==
    /\ last.op = "close"
    /\ "closeResolved" \in last.emits
    /\ closed /\ client = 0 /\ isConnected
    /\ \E s \in Attempts : att[s].open /\ att[s].validated

(***************************************************************************)
(* XtremScale.getScaleIdentifier / getScaleId: the HTTP identity probe     *)
(***************************************************************************)
MaxRealmLen == 2      \* tokens in the realm of a www-authenticate header

\* The realm is a sequence of tokens; "XTREM" is the device prefix.
RealmTokens == {"XTREM", "7", "Q"}

Realms == UNION {[1..n -> RealmTokens] : n \in 1..MaxRealmLen}

\* res.headers['www-authenticate']: absent, present without a realm="..."
\* part, or present with a realm.
Headers ==
    {[kind |-> k, realm |-> <<>>] : k \in {"absent", "noRealm"}}
        \cup {[kind |-> "realm", realm |-> r] : r \in Realms}

Statuses == {401, 200, 404}

\* realm.replace('XTREM', ''): the first occurrence is removed, wherever it is.
RECURSIVE ReplaceXtrem(_)
ReplaceXtrem(realm) ==
    IF realm = <<>> THEN <<>>
    ELSE IF Head(realm) = "XTREM" THEN Tail(realm)
    ELSE <<Head(realm)>> \o ReplaceXtrem(Tail(realm))

\* getScaleId(): the part that runs when getScaleIdentifier() settles.
SerialResolved(p, realm) ==
    [p EXCEPT !.promise = "resolved", !.id = ReplaceXtrem(realm),
              !.returned = ReplaceXtrem(realm)]

IdentifierRejected(p) ==
    IF p.promise = "pending"
    THEN [p EXCEPT !.promise = "rejected", !.returned = Address]
    ELSE p

InitProbe ==
    /\ LinkIdle
    /\ env = "production"
    /\ WeightIdle
    /\ FrameIdle
    /\ RegIdle
    /\ SideIdle

\* getScaleId() -> getScaleIdentifier(): the request is sent.
GetScaleIdCall ==
    /\ idProbe.phase = "idle"
    /\ idProbe' = [idProbe EXCEPT !.phase = "requested", !.promise = "pending"]
    /\ UNCHANGED <<weightVars, frameVars, linkVars, regVars, mgr, decoded>>

\* The response callback: a 401 whose header carries a realm resolves; every
\* other response only registers the 'data' and 'end' listeners.
ProbeResponse(status, header) ==
    /\ idProbe.phase = "requested"
    /\ LET p == [idProbe EXCEPT !.phase = "responded", !.status = status,
                                !.header = header]
       IN  idProbe' = IF status = 401 /\ header.kind = "realm"
                      THEN SerialResolved(p, header.realm) ELSE p
    /\ UNCHANGED <<weightVars, frameVars, linkVars, regVars, mgr, decoded>>

\* The response's 'end' listener: rejects only when the header is absent.
ProbeResponseEnd ==
    /\ idProbe.phase = "responded"
    /\ idProbe.promise = "pending"
    /\ LET p == [idProbe EXCEPT !.phase = "ended"]
       IN  idProbe' = IF idProbe.header.kind = "absent" THEN IdentifierRejected(p) ELSE p
    /\ UNCHANGED <<weightVars, frameVars, linkVars, regVars, mgr, decoded>>

\* The request's 'error' listener, before the response has ended.
ProbeError ==
    /\ idProbe.phase \in {"requested", "responded"}
    /\ idProbe' = IdentifierRejected([idProbe EXCEPT !.phase = "failed"])
    /\ UNCHANGED <<weightVars, frameVars, linkVars, regVars, mgr, decoded>>

\* The request's 'timeout' listener (3000 ms without socket activity):
\* req.destroy() and reject.
ProbeTimeout ==
    /\ idProbe.phase \in {"requested", "responded"}
    /\ idProbe' = IdentifierRejected([idProbe EXCEPT !.phase = "timedOut"])
    /\ UNCHANGED <<weightVars, frameVars, linkVars, regVars, mgr, decoded>>

NextProbe ==
    \/ GetScaleIdCall
    \/ \E status \in Statuses, header \in Headers : ProbeResponse(status, header)
    \/ ProbeResponseEnd
    \/ ProbeError
    \/ ProbeTimeout

SpecProbe == InitProbe /\ [][NextProbe]_vars

(***************************************************************************)
(* ScaleManager's identity resolution: the map key after getScaleId()      *)
(***************************************************************************)
\* The link is built from a config with an id, or from one without, whose
\* provisional id is the address.
InitRekey ==
    /\ LinkIdle
    /\ env = "production"
    /\ WeightIdle
    /\ FrameIdle
    /\ RegIdle
    /\ ManagerIdle
    /\ DecoderIdle
    /\ \E provisional \in {ConfiguredId, Address} : idProbe = ProbeOf(provisional)

\* getScaleId() has returned.
Identity(p) == p.promise \in {"resolved", "rejected"}

\* What addScale and the retry callback do with actualId: when it differs
\* from scaleId the entry under scaleId is deleted and scaleId becomes
\* actualId; the link is stored under scaleId (the retry stores it only in
\* that case, its link being in the map already) and the listeners that are
\* attached next publish under scaleId.
StoreUnderActualId(p) ==
    LET actualId == p.returned
        scaleId == p.provisional
    IN  IF actualId # scaleId
        THEN [p EXCEPT !.keys = (@ \ {scaleId}) \cup {actualId}, !.scaleId = actualId]
        ELSE [p EXCEPT !.keys = @ \cup {scaleId}, !.scaleId = scaleId]

\* addScale outside the test environment, connect() failed: the link is
\* stored under the provisional id and left to the retry.
FirstConnectFails ==
    /\ idProbe.phase = "idle"
    /\ idProbe.keys = {}
    /\ idProbe' = [idProbe EXCEPT !.keys = {idProbe.provisional}]
    /\ UNCHANGED <<weightVars, frameVars, linkVars, regVars, mgr, decoded>>

\* addScale after getScaleId(): re-key, attach the listeners, scales.set.
AddScaleStores ==
    /\ Identity(idProbe)
    /\ idProbe.keys = {}
    /\ idProbe.scaleId = Unattached
    /\ idProbe' = StoreUnderActualId(idProbe)
    /\ UNCHANGED <<weightVars, frameVars, linkVars, regVars, mgr, decoded>>

\* The retry callback after getScaleId(): re-key, attach the listeners.
RetryStores ==
    /\ Identity(idProbe)
    /\ idProbe.keys # {}
    /\ idProbe.scaleId = Unattached
    /\ idProbe' = StoreUnderActualId(idProbe)
    /\ UNCHANGED <<weightVars, frameVars, linkVars, regVars, mgr, decoded>>

NextRekey ==
    \/ FirstConnectFails
    \/ GetScaleIdCall
    \/ \E status \in Statuses, header \in Headers : ProbeResponse(status, header)
    \/ ProbeResponseEnd
    \/ ProbeError
    \/ ProbeTimeout
    \/ AddScaleStores
    \/ RetryStores

SpecRekey == InitRekey /\ [][NextRekey]_vars

\* C26: once the HTTP exchange is over (response ended, error, or timeout),
\* getScaleId() has settled without rejecting: it returned the realm without
\* its 'XTREM', which is then the link's id, or the configured address.
C26_GetScaleIdSettles ==
    idProbe.phase \in {"ended", "failed", "timedOut"} =>
        \/ idProbe.promise = "resolved" /\ idProbe.returned = idProbe.id
        \/ idProbe.promise = "rejected" /\ idProbe.returned = Address
                                        /\ idProbe.id = ConfiguredId

\* The response has ended, its header was present without a usable realm (or
\* with one under a status other than 401), and nothing is left to settle
\* getScaleIdentifier().
C26_ProbeNeverSettlesReached ==
    /\ idProbe.phase = "ended"
    /\ idProbe.promise = "pending"
    /\ idProbe.status = 401
    /\ idProbe.header.kind = "noRealm"

(***************************************************************************)
(* ScaleManager: calls by id, fan-out, and the handlers it attaches        *)
(***************************************************************************)
\* this.scales.has(id) / this.scales.get(id) is a link.
Registered(m, id) == id \in ManagedIds /\ m.scales[id].present

RegisteredIds(m) == {id \in ManagedIds : m.scales[id].present}

\* The message of the error thrown for an id the map does not hold.
NotFound(id) == <<"Scale", id, "not found">>

\* What a call on a link of the map rejected with.
LinkError == <<"link">>

\* The record of a call op(id) before it has done anything.
Call(op, id) == [Quiet EXCEPT !.op = op, !.id = id]

\* XtremScale.startStreaming() / stopStreaming() on link id resolves: the link
\* is connected and its send succeeds (ok holds the links whose send succeeds).
LinkCommandOk(m, id, ok) == m.scales[id].isConnected /\ id \in ok

\* startStreaming(scaleId) with the lookup's result ignored.
StartStreamingOneUnchecked(m, id, ok) ==
    [m EXCEPT !.streamingScales = @ \cup ({id} \cap ManagedIds),
              !.last = [Call("startStreaming", id) EXCEPT !.result = "resolved",
                                                          !.called = {id}]]

\* startStreaming(scaleId) with an id.
StartStreamingOne(m, id, ok) ==
    IF ~Registered(m, id)
    THEN [m EXCEPT !.last = [Call("startStreaming", id) EXCEPT
                                 !.result = "rejected", !.message = NotFound(id)]]
    ELSE IF LinkCommandOk(m, id, ok)
    THEN [m EXCEPT !.streamingScales = @ \cup {id},
                   !.last = [Call("startStreaming", id) EXCEPT
                                 !.result = "resolved", !.called = {id}]]
    ELSE [m EXCEPT !.last = [Call("startStreaming", id) EXCEPT
                                 !.result = "rejected", !.message = LinkError,
                                 !.called = {id}]]

\* A fan-out of startStreaming() whose per-link callbacks have no catch and
\* which awaits Promise.all over them.
StartStreamingAllUncaught(m, ok) ==
    LET failed == \E id \in RegisteredIds(m) : ~LinkCommandOk(m, id, ok)
    IN  [m EXCEPT !.streamingScales = @ \cup {id \in RegisteredIds(m) : LinkCommandOk(m, id, ok)},
                  !.last = [Call("startStreaming", NoId) EXCEPT
                                !.result = IF failed THEN "rejected" ELSE "resolved",
                                !.message = IF failed THEN LinkError ELSE <<>>,
                                !.called = RegisteredIds(m)]]

\* startStreaming() without an id: every link of the map in its own try/catch,
\* and Promise.allSettled over them.
StartStreamingAll(m, ok) ==
    [m EXCEPT !.streamingScales = @ \cup {id \in RegisteredIds(m) : LinkCommandOk(m, id, ok)},
              !.last = [Call("startStreaming", NoId) EXCEPT
                            !.result = "resolved", !.called = RegisteredIds(m)]]

\* ScaleManager.startStreaming(scaleId?): `if (scaleId)` takes the empty string
\* for no id.
ManagerStartStreaming(m, id, ok) ==
    IF id # NoId THEN StartStreamingOne(m, id, ok) ELSE StartStreamingAll(m, ok)

\* stopStreaming(scaleId) with an id: the link's stopStreaming() is called only
\* when the link is connected; the id leaves the intent set unless that call rejects.
StopStreamingOne(m, id, ok) ==
    IF ~Registered(m, id)
    THEN [m EXCEPT !.last = [Call("stopStreaming", id) EXCEPT
                                 !.result = "rejected", !.message = NotFound(id)]]
    ELSE IF ~m.scales[id].isConnected
    THEN [m EXCEPT !.streamingScales = @ \ {id},
                   !.last = [Call("stopStreaming", id) EXCEPT !.result = "resolved"]]
    ELSE IF id \in ok
    THEN [m EXCEPT !.streamingScales = @ \ {id},
                   !.last = [Call("stopStreaming", id) EXCEPT
                                 !.result = "resolved", !.called = {id}]]
    ELSE [m EXCEPT !.last = [Call("stopStreaming", id) EXCEPT
                                 !.result = "rejected", !.message = LinkError,
                                 !.called = {id}]]

\* stopStreaming() without an id.
StopStreamingAll(m, ok) ==
    LET connected == {id \in RegisteredIds(m) : m.scales[id].isConnected}
    IN  [m EXCEPT !.streamingScales = @ \ ((RegisteredIds(m) \ connected) \cup (connected \cap ok)),
                  !.last = [Call("stopStreaming", NoId) EXCEPT
                                !.result = "resolved", !.called = connected]]

\* ScaleManager.stopStreaming(scaleId?).
ManagerStopStreaming(m, id, ok) ==
    IF id # NoId THEN StopStreamingOne(m, id, ok) ELSE StopStreamingAll(m, ok)

\* ScaleManager.getWeight(scaleId): the link's getWeight() rejects when the
\* link is not connected, and otherwise ends as the link makes it end.
ManagerGetWeight(m, id, outcome) ==
    IF ~Registered(m, id)
    THEN [m EXCEPT !.last = [Call("getWeight", id) EXCEPT
                                 !.result = "rejected", !.message = NotFound(id)]]
    ELSE LET result == IF m.scales[id].isConnected THEN outcome ELSE "rejected"
         IN  [m EXCEPT !.last = [Call("getWeight", id) EXCEPT
                                     !.result = result,
                                     !.message = IF result = "rejected" THEN LinkError ELSE <<>>,
                                     !.called = {id}]]

\* ScaleManager.removeScale(scaleId): close(), scales.delete, streamingScales.delete;
\* the id's entry in reconnectionTimers stays, with a callback that holds the
\* removed link.
ManagerRemoveScale(m, id) ==
    IF ~Registered(m, id)
    THEN [m EXCEPT !.last = [Call("removeScale", id) EXCEPT !.result = "resolved"]]
    ELSE [m EXCEPT !.scales[id] = [NoLink EXCEPT !.timer =
                                      IF m.scales[id].timer = "none" THEN "none" ELSE "stale",
                                      !.delay = m.scales[id].delay],
                   !.streamingScales = @ \ {id},
                   !.last = [Call("removeScale", id) EXCEPT
                                 !.result = "resolved", !.called = {id}]]

\* The provider calls a handler makes when it awaits updateStatus and then a
\* presence call inside one try block: a rejection of the first skips the second.
StatusThen(presence, providerOk) ==
    IF providerOk THEN {"updateStatus", presence} ELSE {"updateStatus"}

\* The 'connected' listeners of link id, if any are attached: status and
\* presence-enter in a try/catch; the listener addScale attached then calls the
\* link's startStreaming() when the id is in streamingScales.
ConnectedHandler(m, id, providerOk) ==
    LET kind == m.scales[id].handlers
    IN  [m EXCEPT !.last = [Call("connected", id) EXCEPT
             !.listening = kind # "none",
             !.intended = id \in m.streamingScales,
             !.published = IF kind = "none" THEN {} ELSE StatusThen("enterPresence", providerOk),
             !.called = IF kind = "add" /\ id \in m.streamingScales THEN {id} ELSE {}]]

\* The 'disconnected' listeners of link id: `void updateStatus(...)` and
\* `void leavePresence(...)`, whose rejections nothing handles.
DisconnectedHandler(m, id, providerOk) ==
    LET kind == m.scales[id].handlers
    IN  [m EXCEPT !.last = [Call("disconnected", id) EXCEPT
             !.listening = kind # "none",
             !.intended = id \in m.streamingScales,
             !.published = IF kind = "none" THEN {} ELSE {"updateStatus", "leavePresence"},
             !.unhandled = kind # "none" /\ ~providerOk]]

\* The 'weight' listeners of link id, for a display that differs from the last
\* one forwarded: handleWeightUpdate rethrows what updateWeight rejected with,
\* and the async listener has no catch.
WeightHandler(m, id, providerOk) ==
    LET kind == m.scales[id].handlers
    IN  [m EXCEPT !.last = [Call("weight", id) EXCEPT
             !.listening = kind # "none",
             !.intended = id \in m.streamingScales,
             !.published = IF kind = "none" THEN {} ELSE {"updateWeight"},
             !.unhandled = kind # "none" /\ ~providerOk]]

\* One run of the health check: every link's status and presence update in
\* its own try/catch.
HealthCheck(m, providerOk) ==
    [m EXCEPT !.last = [Call("healthCheck", NoId) EXCEPT
         !.published = IF RegisteredIds(m) = {} THEN {}
                       ELSE StatusThen("updatePresence", providerOk)]]

\* An addScale that rethrows a connect() failure in every environment.
ManagerAddScaleRethrows(m, id, connectOk, providerOk, production) ==
    IF Registered(m, id)
    THEN [m EXCEPT !.last = [Call("addScale", id) EXCEPT !.result = "resolved"]]
    ELSE IF connectOk
    THEN [m EXCEPT !.scales[id] = [present |-> TRUE, isConnected |-> TRUE,
                                   handlers |-> "add", timer |-> m.scales[id].timer,
                                   delay |-> m.scales[id].delay],
                   !.last = [Call("addScale", id) EXCEPT
                                 !.result = "resolved",
                                 !.published = StatusThen("enterPresence", providerOk)]]
    ELSE [m EXCEPT !.last = [Call("addScale", id) EXCEPT
                                 !.result = "rejected", !.message = <<"connect">>]]

\* ScaleManager.addScale(config) for config.id = id.
ManagerAddScale(m, id, connectOk, providerOk, production) ==
    IF Registered(m, id)
    THEN [m EXCEPT !.last = [Call("addScale", id) EXCEPT !.result = "resolved"]]
    ELSE IF connectOk
    THEN [m EXCEPT !.scales[id] = [present |-> TRUE, isConnected |-> TRUE,
                                   handlers |-> "add", timer |-> m.scales[id].timer,
                                   delay |-> m.scales[id].delay],
                   !.last = [Call("addScale", id) EXCEPT
                                 !.result = "resolved",
                                 !.published = StatusThen("enterPresence", providerOk)]]
    ELSE IF production
    THEN [m EXCEPT !.scales[id] = [present |-> TRUE, isConnected |-> FALSE,
                                   handlers |-> "none", timer |-> "own",
                                   delay |-> RetryDelay],
                   !.last = [Call("addScale", id) EXCEPT !.result = "resolved"]]
    ELSE [m EXCEPT !.last = [Call("addScale", id) EXCEPT
                                 !.result = "rejected", !.message = <<"connect">>]]

\* The callback of scheduleScaleReconnection for id. Its link is the one in
\* the map (timer "own"): a connect() that resolves emits 'connected' to the
\* listeners attached so far, then the callback attaches its listeners and
\* calls this.startStreaming(id); any failure schedules the callback again.
\* Its link was removed (timer "stale"): connect() on the closed link resolves,
\* rejects or never settles, and this.startStreaming(id) finds whatever the
\* map holds under the id.
RetryCallback(m, id, connect, providerOk, ok) ==
    IF m.scales[id].timer = "own"
    THEN IF connect # "ok"
         THEN [m EXCEPT !.last = [Call("retry", id) EXCEPT !.result = "rescheduled"]]
         ELSE LET up == [m EXCEPT !.scales[id].isConnected = TRUE]
                  seen == ConnectedHandler(up, id, providerOk).last
                  st == StartStreamingOne([up EXCEPT !.scales[id].handlers = "retry"], id, ok)
                  done == st.last.result = "resolved"
              IN  [st EXCEPT !.scales[id].timer = IF done THEN "none" ELSE "own",
                             !.scales[id].delay = IF done THEN 0 ELSE RetryDelay,
                             !.last = [seen EXCEPT
                                 !.op = "retryConnected",
                                 !.result = IF done THEN "resolved" ELSE "rescheduled",
                                 !.called = st.last.called]]
    ELSE IF connect = "hang"
    THEN [m EXCEPT !.scales[id].timer = "none",
                   !.scales[id].delay = 0,
                   !.last = [Call("staleRetry", id) EXCEPT !.result = "pending"]]
    ELSE IF connect = "fail"
    THEN [m EXCEPT !.last = [Call("staleRetry", id) EXCEPT !.result = "rescheduled"]]
    ELSE LET st == StartStreamingOne(m, id, ok)
             done == st.last.result = "resolved"
         IN  [st EXCEPT !.scales[id].timer = IF done THEN "none" ELSE "stale",
                        !.scales[id].delay = IF done THEN 0 ELSE RetryDelay,
                        !.last = [Call("staleRetry", id) EXCEPT
                            !.result = IF done THEN "resolved" ELSE "rescheduled",
                            !.called = st.last.called]]

\* ScaleManager.shutdown(): timers cleared, stopStreaming(), every link closed
\* and its presence left in a try/catch, scales.clear().
ManagerShutdown(m, providerOk, ok) ==
    [scales |-> [id \in ManagedIds |-> NoLink],
     streamingScales |-> StopStreamingAll(m, ok).streamingScales,
     last |-> [Call("shutdown", NoId) EXCEPT
                  !.result = "resolved",
                  !.called = RegisteredIds(m),
                  !.published = IF RegisteredIds(m) = {} THEN {} ELSE {"leavePresence"}]]

InitManager ==
    /\ LinkIdle
    /\ env \in {"test", "production"}
    /\ WeightIdle
    /\ FrameIdle
    /\ RegIdle
    /\ SideIdle

GetWeightOutcomes == {"resolved", "rejected", "pending"}
ConnectOutcomes == {"ok", "fail", "hang"}

AddScaleTo(id, connectOk, providerOk) ==
    /\ mgr' = ManagerAddScale(mgr, id, connectOk, providerOk, env = "production")
    /\ UNCHANGED <<weightVars, frameVars, linkVars, regVars, idProbe, decoded>>

RemoveScaleOf(id) ==
    /\ mgr' = ManagerRemoveScale(mgr, id)
    /\ UNCHANGED <<weightVars, frameVars, linkVars, regVars, idProbe, decoded>>

StartStreamingOf(id, ok) ==
    /\ mgr' = ManagerStartStreaming(mgr, id, ok)
    /\ UNCHANGED <<weightVars, frameVars, linkVars, regVars, idProbe, decoded>>

StopStreamingOf(id, ok) ==
    /\ mgr' = ManagerStopStreaming(mgr, id, ok)
    /\ UNCHANGED <<weightVars, frameVars, linkVars, regVars, idProbe, decoded>>

GetWeightOf(id, outcome) ==
    /\ mgr' = ManagerGetWeight(mgr, id, outcome)
    /\ UNCHANGED <<weightVars, frameVars, linkVars, regVars, idProbe, decoded>>

\* The link's own reconnection completed its handshake: 'connected' is emitted.
LinkConnected(id, providerOk) ==
    /\ Registered(mgr, id)
    /\ ~mgr.scales[id].isConnected
    /\ mgr' = ConnectedHandler([mgr EXCEPT !.scales[id].isConnected = TRUE], id, providerOk)
    /\ UNCHANGED <<weightVars, frameVars, linkVars, regVars, idProbe, decoded>>

\* A socket error or the inactivity watchdog: 'disconnected' is emitted.
LinkDisconnected(id, providerOk) ==
    /\ Registered(mgr, id)
    /\ mgr.scales[id].isConnected
    /\ mgr' = DisconnectedHandler([mgr EXCEPT !.scales[id].isConnected = FALSE], id, providerOk)
    /\ UNCHANGED <<weightVars, frameVars, linkVars, regVars, idProbe, decoded>>

\* A weight frame was decoded: 'weight' is emitted.
LinkWeight(id, providerOk) ==
    /\ Registered(mgr, id)
    /\ mgr.scales[id].isConnected
    /\ mgr' = WeightHandler(mgr, id, providerOk)
    /\ UNCHANGED <<weightVars, frameVars, linkVars, regVars, idProbe, decoded>>

HealthCheckTick(providerOk) ==
    /\ mgr' = HealthCheck(mgr, providerOk)
    /\ UNCHANGED <<weightVars, frameVars, linkVars, regVars, idProbe, decoded>>

RetryTimerFires(id, connect, providerOk, ok) ==
    /\ mgr.scales[id].timer # "none"
    /\ mgr.scales[id].timer = "own" => connect # "hang"
    /\ mgr' = RetryCallback(mgr, id, connect, providerOk, ok)
    /\ UNCHANGED <<weightVars, frameVars, linkVars, regVars, idProbe, decoded>>

ShutdownManager(providerOk, ok) ==
    /\ mgr' = ManagerShutdown(mgr, providerOk, ok)
    /\ UNCHANGED <<weightVars, frameVars, linkVars, regVars, idProbe, decoded>>

NextManager ==
    \/ \E id \in ManagedIds, connectOk \in BOOLEAN, providerOk \in BOOLEAN :
           AddScaleTo(id, connectOk, providerOk)
    \/ \E id \in CallIds : RemoveScaleOf(id)
    \/ \E id \in CallIds, ok \in SUBSET ManagedIds : StartStreamingOf(id, ok)
    \/ \E id \in CallIds, ok \in SUBSET ManagedIds : StopStreamingOf(id, ok)
    \/ \E id \in CallIds, outcome \in GetWeightOutcomes : GetWeightOf(id, outcome)
    \/ \E id \in ManagedIds, providerOk \in BOOLEAN : LinkConnected(id, providerOk)
    \/ \E id \in ManagedIds, providerOk \in BOOLEAN : LinkDisconnected(id, providerOk)
    \/ \E id \in ManagedIds, providerOk \in BOOLEAN : LinkWeight(id, providerOk)
    \/ \E providerOk \in BOOLEAN : HealthCheckTick(providerOk)
    \/ \E id \in ManagedIds, connect \in ConnectOutcomes, providerOk \in BOOLEAN,
          ok \in SUBSET ManagedIds : RetryTimerFires(id, connect, providerOk, ok)
    \/ \E providerOk \in BOOLEAN, ok \in SUBSET ManagedIds : ShutdownManager(providerOk, ok)

SpecManager == InitManager /\ [][NextManager]_vars

\* What the registry holds besides the record of its last call.
Holdings(m) == <<m.scales, m.streamingScales>>

UnknownIdOps == {"removeScale", "startStreaming", "stopStreaming", "getWeight"}

\* The step is a call of one of the four operations with the id it names, and
\* the map held no link under that id.
UnknownIdCall(id) ==
    /\ mgr'.last.op \in UnknownIdOps
    /\ mgr'.last.id = id
    /\ ~Registered(mgr, id)

\* What C27 says of such a call.
UnknownIdOutcome ==
    /\ Holdings(mgr') = Holdings(mgr)
    /\ mgr'.last.called = {}
    /\ mgr'.last.published = {}
    /\ IF mgr'.last.op = "removeScale"
       THEN mgr'.last.result = "resolved"
       ELSE mgr'.last.result = "rejected" /\ mgr'.last.message = NotFound(mgr'.last.id)

\* C27 as stated: for every id that is not registered, the empty string among
\* them, removeScale resolves and startStreaming, stopStreaming and getWeight
\* reject with 'Scale <id> not found', and the map, the intent set and the links
\* are unchanged and nothing is sent or published.
C27_UnknownIdChangesNothing ==
    [][\A id \in CallIds : UnknownIdCall(id) => UnknownIdOutcome]_vars

\* C27, amended: the same for every non-empty id that is not registered; with
\* the empty string startStreaming and stopStreaming take the call for one
\* without an id, fan out over every link and resolve.
C27_UnknownNonEmptyIdChangesNothing ==
    [][/\ \A id \in CallIds \ {NoId} : UnknownIdCall(id) => UnknownIdOutcome
       /\ (mgr'.last.op \in {"startStreaming", "stopStreaming"} /\ mgr'.last.id = NoId)
              => mgr'.last.result = "resolved"]_vars

\* A link is registered and connected, and startStreaming of an id the map does
\* not hold has just been rejected.
C27_Witness ==
    /\ mgr.last.op = "startStreaming"
    /\ mgr.last.id \in CallIds \ {NoId}
    /\ ~Registered(mgr, mgr.last.id)
    /\ mgr.last.result = "rejected"
    /\ \E id \in ManagedIds : Registered(mgr, id) /\ mgr.scales[id].isConnected

\* The step is a startStreaming() or stopStreaming() call without an id.
FanOut(op) == mgr'.last.op = op /\ mgr'.last.id = NoId

ConnectedIds(m) == {id \in RegisteredIds(m) : m.scales[id].isConnected}

\* C28: startStreaming() without an id calls startStreaming on every registered
\* link and stopStreaming() without an id calls stopStreaming on every
\* registered link that is connected and untracks every one that is not; the
\* links whose call rejects (a start on a link that is not connected among
\* them) keep their place in the intent set as it was, the others are still
\* reached, and the call resolves.
C28_FanOutReachesEveryLink ==
    [][/\ FanOut("startStreaming") =>
              /\ mgr'.last.result = "resolved"
              /\ mgr'.last.called = RegisteredIds(mgr)
              /\ mgr.streamingScales \subseteq mgr'.streamingScales
              /\ mgr'.streamingScales \subseteq mgr.streamingScales \cup ConnectedIds(mgr)
       /\ FanOut("stopStreaming") =>
              /\ mgr'.last.result = "resolved"
              /\ mgr'.last.called = ConnectedIds(mgr)
              /\ mgr'.streamingScales \subseteq mgr.streamingScales
              /\ mgr'.streamingScales \cap (RegisteredIds(mgr) \ ConnectedIds(mgr)) = {}
       /\ (FanOut("startStreaming") \/ FanOut("stopStreaming")) => mgr'.scales = mgr.scales]_vars

\* startStreaming() without an id has resolved over two registered links, one
\* that is not connected and not tracked (its start rejected) and one that is
\* connected and tracked.
C28_Witness ==
    /\ mgr.last.op = "startStreaming"
    /\ mgr.last.id = NoId
    /\ mgr.last.result = "resolved"
    /\ mgr.last.called = ManagedIds
    /\ \E id \in ManagedIds : ~mgr.scales[id].isConnected /\ id \notin mgr.streamingScales
    /\ \E id \in ManagedIds : mgr.scales[id].isConnected /\ id \in mgr.streamingScales

\* C29: no provider call made from an event handler, the health check or
\* shutdown() leaves a rejection that nothing handles.
C29_NoUnhandledRejection == ~mgr.last.unhandled

\* The handlers whose provider calls are inside a try/catch: a rejection of
\* the provider on 'connected', a health check or shutdown() stays inside.
CaughtWhereWrapped ==
    mgr.last.op \in {"connected", "retryConnected", "healthCheck", "shutdown", "addScale"}
        => ~mgr.last.unhandled

\* The provider rejected updateStatus and leavePresence in the 'disconnected'
\* listener of a link, and nothing handled the rejections.
C29_UnhandledOnDisconnectedReached ==
    /\ mgr.last.op = "disconnected"
    /\ mgr.last.published = {"updateStatus", "leavePresence"}
    /\ mgr.last.unhandled

\* The provider rejected updateWeight in the 'weight' listener of a link, and
\* the listener's promise rejected with it.
C29_UnhandledOnWeightReached ==
    /\ mgr.last.op = "weight"
    /\ mgr.last.published = {"updateWeight"}
    /\ mgr.last.unhandled

\* A registered link has just emitted 'connected': by its own reconnection, or
\* inside the connect() of the registry's retry.
ConnectedEmitted == mgr.last.op \in {"connected", "retryConnected"}

\* What C30 asks of the registry at that point: the status publish is made
\* (the presence-enter follows it unless the provider rejects), and the link's
\* startStreaming() is called when its id was in streamingScales.
PublishedAndResumed ==
    /\ "updateStatus" \in mgr.last.published
    /\ mgr.last.intended => mgr.last.id \in mgr.last.called

\* C30: whenever a registered link emits 'connected' the registry publishes
\* its status and presence-enter and, if the id is in the intent set, calls
\* the link's startStreaming(), for links added by a successful addScale and
\* for links connected later by the registry's retry alike.
C30_ConnectedPublishesAndResumes == ConnectedEmitted => PublishedAndResumed

\* The part that holds: on a link whose listeners addScale attached.
ConnectedOnAddedLinkPublishesAndResumes ==
    (mgr.last.op = "connected" /\ mgr.scales[mgr.last.id].handlers = "add")
        => PublishedAndResumed

\* A link whose first connect failed is in the map without listeners, and
\* its 'connected' (its own reconnection, or the retry's connect()) reached
\* no listener of the registry: nothing was published.
C30_NoListenerOnConnectedReached ==
    /\ ConnectedEmitted
    /\ ~mgr.last.listening
    /\ mgr.last.published = {}

\* A link connected by the retry reconnected with its id in streamingScales:
\* the retry's 'connected' listener published and did not call startStreaming().
C30_NoResumeAfterRetryReached ==
    /\ mgr.last.op = "connected"
    /\ mgr.scales[mgr.last.id].handlers = "retry"
    /\ mgr.last.intended
    /\ "updateStatus" \in mgr.last.published
    /\ mgr.last.called = {}

\* The step is an addScale(id) call that found no link under the id.
AddOfNew(id) == mgr'.last.op = "addScale" /\ mgr'.last.id = id /\ ~Registered(mgr, id)

\* The retry of link id is scheduled: one entry for the id in
\* reconnectionTimers, set with the fixed delay, its callback holding the link.
RetryScheduled(m, id) == m.scales[id].timer = "own" /\ m.scales[id].delay = RetryDelay

\* C31: an addScale whose connect() fails rejects in the test environment and
\* leaves the map as it was; elsewhere it resolves with the link in the map
\* under the id and the retry scheduled after 3000 ms.  A retry whose connect()
\* fails, or whose startStreaming fails, schedules the next one the same way,
\* however many came before; a pending timer always has that delay.
C31_InitialConnectPolicy ==
    [][/\ \A id \in ManagedIds : AddOfNew(id) =>
              IF mgr'.last.result = "rejected"
              THEN env = "test" /\ mgr'.scales = mgr.scales
              ELSE /\ mgr'.last.result = "resolved"
                   /\ Registered(mgr', id)
                   /\ mgr'.scales[id].isConnected \/ (env # "test" /\ RetryScheduled(mgr', id))
       /\ \A id \in ManagedIds :
              (mgr'.last.op \in {"retry", "retryConnected"} /\ mgr'.last.id = id
                   /\ mgr.scales[id].timer = "own") =>
                  /\ mgr'.last.op = "retry" => mgr'.last.result = "rescheduled"
                  /\ mgr'.last.result = "rescheduled" => RetryScheduled(mgr', id)
                  /\ mgr'.last.result # "rescheduled" => mgr'.scales[id].timer = "none"
                  /\ Registered(mgr', id)
       /\ \A id \in ManagedIds :
              mgr'.scales[id].timer # "none" => mgr'.scales[id].delay = RetryDelay]_vars

\* Outside the test environment a link whose first connect() failed is in the
\* map, not connected, and a retry that failed as well has scheduled the next.
C31_Witness ==
    /\ env = "production"
    /\ mgr.last.op = "retry"
    /\ mgr.last.result = "rescheduled"
    /\ Registered(mgr, mgr.last.id)
    /\ ~mgr.scales[mgr.last.id].isConnected
    /\ mgr.scales[mgr.last.id].handlers = "none"
    /\ RetryScheduled(mgr, mgr.last.id)

(***************************************************************************)
(* XtremScale.getStatus                                                    *)
(***************************************************************************)
\* getStatus(): an object literal over the link's fields (id, ip and the
\* cached reading are not part of the link model).
GetStatus(connected, activity, count, error) ==
    [isConnected |-> connected, lastActivity |-> activity, errorCount |-> count,
     lastError |-> error]

\* The messages of the errors that the validation timeout and the inactivity
\* handler construct.
NotResponding == "not responding"
ScaleInactive == "Scale inactive"

\* The step is a failure that disconnects the link: a socket error that the
\* error listener handles, a validation timeout that rejects connect(), or a
\* heartbeat tick that declares inactivity.
DisconnectingFailure(op) ==
    /\ last'.op = op
    /\ \/ op = "error" /\ ~handlingError
       \/ op = "vtimeout" /\ "rejected" \in last'.emits
       \/ op = "tickExpired" /\ "disconnected" \in last'.emits

FailureMessage(op) ==
    IF op = "error" THEN UdpError
    ELSE IF op = "vtimeout" THEN NotResponding
    ELSE ScaleInactive

\* C32: after a socket error, a validation timeout or an inactivity timeout
\* has disconnected the link, getStatus() reports isConnected false, the error
\* of that failure as lastError, and an error count that has grown by it.
C32_SnapshotReflectsFailure ==
    [][\A op \in {"error", "vtimeout", "tickExpired"} : DisconnectingFailure(op) =>
           LET status == GetStatus(isConnected', lastHeartbeat', errorCount', lastError')
           IN  /\ ~status.isConnected
               /\ status.lastError = FailureMessage(op)
               /\ status.errorCount > errorCount]_vars

\* The part that holds: after a handled socket error the snapshot has all three.
SocketErrorShowsInStatus ==
    [][DisconnectingFailure("error") =>
           LET status == GetStatus(isConnected', lastHeartbeat', errorCount', lastError')
           IN  /\ ~status.isConnected
               /\ status.lastError = UdpError
               /\ status.errorCount > errorCount]_vars

\* The link was declared inactive and its snapshot shows no error at all:
\* lastError undefined and errorCount 0.
C32_InactivityNotRecordedReached ==
    /\ last.op = "tickExpired"
    /\ "disconnected" \in last.emits
    /\ GetStatus(isConnected, lastHeartbeat, errorCount, lastError)
           = GetStatus(FALSE, lastHeartbeat, 0, Undefined)

\* A connect() was rejected by its validation timeout and the snapshot's
\* lastError is still undefined.
C32_TimeoutNotRecordedReached ==
    /\ last.op = "vtimeout"
    /\ "rejected" \in last.emits
    /\ ~isConnected
    /\ lastError = Undefined

\* addScale, or the retry, has resolved the identity of the link and attached
\* its listeners.
Rekeyed == idProbe.scaleId # Unattached

\* C33: once the identity is resolved the link is in the map under exactly
\* one key, the id getScaleId() returned, and that key is the id the link
\* reports in getStatus() (which the health check publishes under) and the id
\* its listeners publish weight, status and presence under.
C33_KeyIsTheLinksId ==
    Rekeyed =>
        /\ idProbe.keys = {idProbe.returned}
        /\ idProbe.scaleId = idProbe.returned
        /\ idProbe.id = idProbe.returned

\* The part that holds: one key, the returned id, which the listeners use.
OneKeyTheReturnedId ==
    Rekeyed => idProbe.keys = {idProbe.returned} /\ idProbe.scaleId = idProbe.returned

\* The part that holds: with a serial number, or with a config that has no id
\* of its own, the key is the link's id as well.
KeyIsTheLinksIdUnlessFallbackWithConfigId ==
    (Rekeyed /\ (idProbe.promise = "resolved" \/ idProbe.provisional = Address))
        => idProbe.id = idProbe.returned

\* The config has an id, the probe failed, getScaleId() returned the address:
\* the link is in the map under the address and reports the configured id.
C33_KeyDiffersFromStatusIdReached ==
    /\ Rekeyed
    /\ idProbe.promise = "rejected"
    /\ idProbe.keys = {Address}
    /\ idProbe.id = ConfiguredId

(***************************************************************************)
(* XtremScale.handleMessage: the fallback framing                          *)
(***************************************************************************)
\* What is left of a text once its delimited frames are taken out: the text
\* behind the ETX of the last of them.
Residue(s) ==
    LET f == DelimitedFrames(s, 1)
    IN  IF f = <<>> THEN s ELSE SubSeq(s, f[Len(f)].etx + 1, Len(s))

\* The buffer the handleMessage call of this step had after its extraction
\* loop: the residue of the old buffer with the step's datagram appended.
ResidueOfStep == Residue(rxBuffer \o SubSeq(stream', Len(stream) + 1, Len(stream')))

\* The frames the handleMessage call of this step parsed by the fallback.
FallbackOfStep ==
    LET new == SubSeq(parsed', Len(parsed) + 1, Len(parsed'))
    IN  SelectSeq(new, LAMBDA p : p.via = "alternative")

\* The fallback applies to a buffer: it holds no STX and more than 4 characters.
FallbackApplies(buf) == ~Includes(buf, STX) /\ Len(buf) > 4

\* The text the fallback would parse: without the first character and the last 3.
Stripped(buf) == SubSeq(buf, 2, Len(buf) - 3)

\* C34 as stated: where the fallback applies the stripped text is parsed as a
\* frame only if it has at least 15 characters, and the buffer is emptied
\* whether or not it has.
C34_FallbackAlwaysEmptiesBuffer ==
    [][LET rest == ResidueOfStep
       IN  IF FallbackApplies(rest)
           THEN /\ rxBuffer' = <<>>
                /\ IF Len(Stripped(rest)) >= 15
                   THEN Len(FallbackOfStep) = 1 /\ FallbackOfStep[1].frame = Stripped(rest)
                   ELSE FallbackOfStep = <<>>
           ELSE rxBuffer' = rest /\ FallbackOfStep = <<>>]_vars

\* C34, amended: where the fallback applies and the stripped text has at
\* least 15 characters it is parsed as one frame and the buffer is emptied;
\* where it is shorter nothing is parsed and the buffer is kept as it is, as it
\* is where the fallback does not apply.
C34_FallbackEmptiesBufferOnlyWhenParsed ==
    [][LET rest == ResidueOfStep
       IN  IF FallbackApplies(rest) /\ Len(Stripped(rest)) >= 15
           THEN /\ rxBuffer' = <<>>
                /\ Len(FallbackOfStep) = 1
                /\ FallbackOfStep[1].frame = Stripped(rest)
           ELSE rxBuffer' = rest /\ FallbackOfStep = <<>>]_vars

\* One datagram was parsed by the fallback, and later datagrams have left a
\* buffer without STX and with more than 4 characters that was too short to
\* parse and is still there.
C34_Witness ==
    /\ \E k \in 1..Len(parsed) : parsed[k].via = "alternative"
    /\ FallbackApplies(rxBuffer)
    /\ Len(Stripped(rxBuffer)) < 15

(***************************************************************************)
(* XtremScale.parseWeightData: a frame is a sequence of characters; the    *)
(* two regular expressions are matched as the engine matches them: the     *)
(* leftmost start, every quantifier taking the longest run it can.         *)
(***************************************************************************)

\* The classes of the expressions: \s, \d, [+-] and [a-zA-Z], over the
\* characters the frames below are written in.
Blanks  == {" "}
Digits  == {"0", "1", "5", "6", "7"}
Signs   == {"+", "-"}
Letters == {"A", "S", "T", "W", "e", "g", "k", "r", "x"}

\* data.substring(from, to), offsets counted from 0.
Substring(data, from, to) ==
    SubSeq(data, from + 1, IF to < Len(data) THEN to ELSE Len(data))

\* The index after the longest run of characters of a class that starts at i.
RunEnd(s, i, class) ==
    CHOOSE j \in i..(Len(s) + 1) :
        /\ \A k \in i..(j - 1) : s[k] \in class
        /\ j = Len(s) + 1 \/ s[j] \notin class

\* [+-]?\d+(?:\.\d+)? at i: the index after it, or 0 where there is none.
NumberEnd(s, i) ==
    LET d == IF i <= Len(s) /\ s[i] \in Signs THEN i + 1 ELSE i
        e == RunEnd(s, d, Digits)
    IN  IF e = d THEN 0
        ELSE IF e <= Len(s) /\ s[e] = "." /\ RunEnd(s, e + 1, Digits) > e + 1
             THEN RunEnd(s, e + 1, Digits)
             ELSE e

\* ([+-]?\d+(?:\.\d+)?)(?:\s*)([a-zA-Z]+) at i: the two groups, or <<>>.
PairAt(s, i) ==
    LET n == NumberEnd(s, i)
        u == RunEnd(s, n, Blanks)
        v == RunEnd(s, u, Letters)
    IN  IF i > Len(s) \/ n = 0 THEN <<>>
        ELSE IF v = u THEN <<>>
        ELSE <<[weight |-> SubSeq(s, i, n - 1), unit |-> SubSeq(s, u, v - 1)]>>

\* data.match(/W\s*([+-]?\d+(?:\.\d+)?)(?:\s*)([a-zA-Z]+)/)
WMatch(data) ==
    LET after(i) == RunEnd(data, i + 1, Blanks)
        starts == {i \in 1..Len(data) : data[i] = "W" /\ PairAt(data, after(i)) # <<>>}
    IN  IF starts = {} THEN <<>>
        ELSE PairAt(data, after(CHOOSE i \in starts : \A j \in starts : i <= j))

\* afterType.match(/([+-]?\d+(?:\.\d+)?)(?:\s*)([a-zA-Z]+)/)
GenericMatch(afterType) ==
    LET starts == {i \in 1..Len(afterType) : PairAt(afterType, i) # <<>>}
    IN  IF starts = {} THEN <<>>
        ELSE PairAt(afterType, CHOOSE i \in starts : \A j \in starts : i <= j)

\* The weightData object (timestamp and scaleId left out).
Reading(data, weight, unit) ==
    [raw |-> data, address |-> Substring(data, 0, 2), command |-> Substring(data, 2, 4),
     weight |-> weight, unit |-> unit,
     display |-> IF unit # <<>> THEN weight \o <<" ">> \o unit ELSE weight]

WeightEvent(reading) == [name |-> "weight", text |-> <<>>, reading |-> <<reading>>]
StatusEvent(data) == [name |-> "status", text |-> data, reading |-> <<>>]

\* typeChar
TypeChar(data) == IF Len(data) >= 5 THEN data[5] ELSE ""

\* The body of parseWeightData for a frame of the given type: the cached
\* reading after the call and the events emitted.
ParseAs(data, cached, typeChar) ==
    IF Len(data) < 4 THEN [weightData |-> cached, events |-> <<>>]
    ELSE IF typeChar = "r"
    THEN LET wMatch == WMatch(data)
             genericMatch == GenericMatch(Substring(data, 5, Len(data)))
             found == IF wMatch # <<>> THEN wMatch ELSE genericMatch
             reading == IF found # <<>>
                        THEN Reading(data, found[1].weight, found[1].unit)
                        ELSE Reading(data, <<>>, <<>>)
         IN  [weightData |-> <<reading>>, events |-> <<WeightEvent(reading)>>]
    ELSE IF typeChar = "e"
    THEN [weightData |-> cached, events |-> <<StatusEvent(data)>>]
    ELSE LET value == IF Len(data) > 4 THEN Substring(data, 4, Len(data)) ELSE data
             reading == Reading(data, value, <<>>)
         IN  [weightData |-> <<reading>>, events |-> <<WeightEvent(reading)>>]

\* A variant that takes a status frame for unknown data.
ParseWeightDataWithoutStatus(data, cached) ==
    ParseAs(data, cached, IF TypeChar(data) = "e" THEN "" ELSE TypeChar(data))

ParseWeightData(data, cached) == ParseAs(data, cached, TypeChar(data))

\* The frames parsed: the example of the source's comment, and frames put
\* together from an address and command, a type character, a lead field, a W
\* segment and trailing T and S segments; status frames; frames too short.
ExampleFrame ==
    <<"0", "1", "0", "0", "r", "0", "1", "0", "7", "1", "A", "W", " ", " ", " ",
      "0", ".", "0", "0", "0", "k", "g", "T", " ", " ", " ", "0", ".", "0", "0", "0",
      "k", "g", "S", "0", "1", "5", "6", "1">>
ExampleFrameWithoutTS == SubSeq(ExampleFrame, 1, 22)

AddressCommand == <<"0", "1", "0", "0">>
FrameTypes == {"r", "x"}
Leads == {<<>>, <<"0", "1", "A">>}
Gaps == {<<>>, <<" ">>}
Numbers == {<<"-", "1", ".", "5">>, <<"7", ".">>}
Units == {<<"k", "g">>, <<>>}
TSegment == <<"T", " ", "0", ".", "0", "k", "g">>
SSegment == <<"S", "0", "1", "5">>
Trailers == {<<>>, TSegment, SSegment, <<" ">> \o TSegment \o SSegment}
WSegments ==
    {<<>>} \cup {<<"W">> \o g \o n \o u : g \in Gaps, n \in Numbers, u \in Units}
StatusFrames == {AddressCommand \o <<"e">> \o b : b \in {<<>>, <<"W", "1", "g">>}}
ShortFrames == {<<>>, <<"0", "1">>, <<"0", "1", "0">>}
DataFrames ==
    {AddressCommand \o <<t>> \o l \o w \o r :
        t \in FrameTypes, l \in Leads, w \in WSegments, r \in Trailers}
ParsedFrames ==
    DataFrames \cup StatusFrames \cup ShortFrames
        \cup {AddressCommand, ExampleFrame, ExampleFrameWithoutTS}

InitParse ==
    /\ LinkIdle
    /\ env = "production"
    /\ WeightIdle
    /\ FrameIdle
    /\ RegIdle
    /\ SideIdle

\* parseWeightData(data)
ParseWeightDataCall(data) ==
    /\ LET out == ParseWeightData(data, decoded.weightData)
       IN  decoded' = [weightData |-> out.weightData, frame |-> data, events |-> out.events]
    /\ UNCHANGED <<weightVars, frameVars, linkVars, regVars, idProbe, mgr>>

NextParse == \E data \in ParsedFrames : ParseWeightDataCall(data)

SpecParse == InitParse /\ [][NextParse]_vars

\* The text from offset 4 of a frame, the whole frame when it has 4 characters.
FromOffset4(f) == IF Len(f) > 4 THEN SubSeq(f, 5, Len(f)) ELSE f

\* C35: a frame shorter than 4 characters emits nothing and leaves the cached
\* reading alone; a frame whose fifth character is 'r' emits exactly one weight
\* event; one whose fifth character is 'e' emits exactly one status event that
\* carries the whole frame, and leaves the cached reading alone; any other
\* frame emits one weight event whose weight and display are the text from
\* offset 4 and whose unit is empty.
C35_FrameClassification ==
    [][LET f == decoded'.frame
           ev == decoded'.events
       IN  IF Len(f) < 4
           THEN ev = <<>> /\ decoded'.weightData = decoded.weightData
           ELSE IF Len(f) >= 5 /\ f[5] = "r"
           THEN Len(ev) = 1 /\ ev[1].name = "weight"
           ELSE IF Len(f) >= 5 /\ f[5] = "e"
           THEN /\ ev = <<StatusEvent(f)>>
                /\ decoded'.weightData = decoded.weightData
           ELSE /\ Len(ev) = 1
                /\ ev[1].name = "weight"
                /\ ev[1].reading[1].weight = FromOffset4(f)
                /\ ev[1].reading[1].display = FromOffset4(f)
                /\ ev[1].reading[1].unit = <<>>
                /\ decoded'.weightData = ev[1].reading]_vars

\* A status frame was parsed after a weight frame: the one event is the status
\* event and the cached reading is still that of the weight frame.
C35_Witness ==
    /\ decoded.frame \in StatusFrames
    /\ decoded.events = <<StatusEvent(decoded.frame)>>
    /\ decoded.weightData # <<>>
    /\ TypeChar(decoded.weightData[1].raw) = "r"

\* The numbers of the W segments above that are signed decimal numbers, the
\* units that are alphabetic, and what may follow a unit directly: nothing, a
\* T segment, an S segment, or both.
DecimalNumbers == {n \in Numbers : NumberEnd(n, 1) = Len(n) + 1}
AlphabeticUnits == {u \in Units : u # <<>> /\ \A k \in 1..Len(u) : u[k] \in Letters}
DirectTrailers == {<<>>, TSegment, SSegment, TSegment \o SSegment}

\* The last frame parsed is a weight frame with this W segment and trailer.
WeightFrameOf(g, n, u, r) ==
    \E l \in Leads : decoded.frame = AddressCommand \o <<"r">> \o l \o <<"W">> \o g \o n \o u \o r

\* C36: the reading of a weight frame with a W segment has the segment's
\* number as weight and the segment's unit as unit, and weight, a space and
\* unit as display, whatever T or S segments follow the unit directly; the
\* source's example frame reads '0.000', 'kg', '0.000 kg', as it does without
\* its T and S segments.
C36_WSegmentIgnoresTrailers ==
    /\ \A g \in Gaps, n \in DecimalNumbers, u \in AlphabeticUnits, r \in DirectTrailers :
          WeightFrameOf(g, n, u, r)
          => /\ decoded.weightData[1].weight = n
             /\ decoded.weightData[1].unit = u
             /\ decoded.weightData[1].display = n \o <<" ">> \o u
    /\ decoded.frame \in {ExampleFrame, ExampleFrameWithoutTS}
          => /\ decoded.weightData[1].weight = <<"0", ".", "0", "0", "0">>
             /\ decoded.weightData[1].unit = <<"k", "g">>
             /\ decoded.weightData[1].display = <<"0", ".", "0", "0", "0", " ", "k", "g">>

\* Without a trailer the W segment is read as C36 says.
WSegmentAloneIsRead ==
    /\ \A g \in Gaps, n \in DecimalNumbers, u \in AlphabeticUnits :
          WeightFrameOf(g, n, u, <<>>)
          => /\ decoded.weightData[1].weight = n
             /\ decoded.weightData[1].unit = u
             /\ decoded.weightData[1].display = n \o <<" ">> \o u
    /\ decoded.frame = ExampleFrameWithoutTS
          => decoded.weightData[1].display = <<"0", ".", "0", "0", "0", " ", "k", "g">>

\* The example frame has been parsed and its unit is 'kgT'.
C36_UnitSwallowsTrailerReached ==
    /\ decoded.frame = ExampleFrame
    /\ decoded.weightData[1].unit = <<"k", "g", "T">>
    /\ decoded.weightData[1].display = <<"0", ".", "0", "0", "0", " ", "k", "g", "T">>

\* C37: a link that has reconnected is not declared inactive by a tick that
\* measures from a timestamp recorded before the handshake of its present
\* connection: while no datagram has been decoded since that handshake, an
\* expired tick leaves the link connected.
C37_InactivityMeasuredFromReconnection ==
    [][ (/\ last'.op = "tickExpired"
         /\ isConnected /\ ~heardSince
         /\ lastHeartbeat = "set") => isConnected' ]_vars

\* What the watchdog does keep: a link that reconnected after a socket error
\* has no timestamp, and no tick declares it inactive before its first
\* datagram.
NoInactivityAfterErrorReconnect ==
    [][ (/\ last'.op \in {"tick", "tickExpired"}
         /\ isConnected /\ ~heardSince
         /\ lastHeartbeat = Undefined) => (isConnected' /\ last'.emits = {}) ]_vars

\* No socket error has ever occurred, the first connection was declared
\* inactive, the link reconnected, and a tick has declared the second
\* connection inactive as well.
C37_InactiveAgainAfterReconnectReached ==
    /\ last.op = "tickExpired"
    /\ "disconnected" \in last.emits
    /\ lastError = Undefined
    /\ nAtt = 2 /\ att[1].validated /\ att[2].validated

\* removeScale(id) has just resolved for a link that was in the map.
RemovedNow(id) ==
    /\ mgr'.last.op = "removeScale"
    /\ mgr'.last.id = id
    /\ Registered(mgr, id)

\* C38: once removeScale(id) has resolved the link is out of the map, no retry
\* timer of the registry is pending for it, and no retry callback ever runs
\* connect() on a removed link.
C38_RemovedLinkStaysDiscarded ==
    [][ /\ \A id \in ManagedIds :
              RemovedNow(id) => /\ ~Registered(mgr', id)
                                /\ id \notin mgr'.streamingScales
                                /\ mgr'.scales[id].timer = "none"
        /\ mgr'.last.op # "staleRetry" ]_vars

\* What removeScale does: the link leaves the map and the streaming intent,
\* and where no retry was pending none is pending afterwards.
RemoveScaleDiscardsLinkAndIntent ==
    [][ \A id \in ManagedIds :
            RemovedNow(id) => /\ ~Registered(mgr', id)
                              /\ id \notin mgr'.streamingScales
                              /\ mgr.scales[id].timer = "none"
                                    => mgr'.scales[id].timer = "none" ]_vars

\* The retry callback of a removed link has run connect() on it, and the id
\* is not in the map.
C38_RetryOnRemovedLinkReached ==
    /\ mgr.last.op = "staleRetry"
    /\ ~Registered(mgr, mgr.last.id)

\* addScale has rejected: in the test environment the connect() it awaited
\* was rejected, and the link was never put into the map.
AddScaleRejected ==
    /\ env = "test"
    /\ started /\ ~registered /\ ~closed /\ ~shutDown
    /\ att[1].promise = "settled"

\* C39: after addScale has rejected on a failed connect(), nothing of the
\* link is alive: it is not in the map, none of its sockets is open, none of
\* its timers is pending, and it makes no further connection attempt.
C39_RejectedLinkIsDead ==
    AddScaleRejected =>
        /\ \A a \in Attempts : ~att[a].open /\ ~att[a].vtimer
        /\ reconnectTimer = <<>>
        /\ ~regTimer /\ ~heartbeatTimer
        /\ ~isConnected
        /\ nAtt = 1

\* What addScale's rejection does leave: the link is not in the map and the
\* registry has scheduled no retry for it.
RejectedLinkIsNotRegistered ==
    AddScaleRejected => ~registered /\ ~regTimer /\ regPhase = "idle"

\* After addScale rejected, the link's own reconnection has connected it.
C39_ConnectedInBackgroundReached ==
    /\ AddScaleRejected
    /\ isConnected /\ nAtt > 1
    /\ heartbeatTimer

\* What a rejected command emits.
Rejections == {"Scale not connected", "UDP client not initialized", "sendRejected"}

\* C40: a startStreaming() or stopStreaming() of the link that rejects leaves
\* the streaming-mode flag as it was before the call.
C40_RejectedCallKeepsFlag ==
    [][ (/\ last'.op \in {"startStreaming", "stopStreaming"}
         /\ last'.emits \cap Rejections # {}) => streamingMode' = streamingMode ]_vars

\* What the two calls do to the flag, whether they resolve or reject:
\* startStreaming() sets it and stopStreaming() clears it, before the send.
FlagSetBeforeSend ==
    [][ /\ last'.op = "startStreaming" => streamingMode'
        /\ last'.op = "stopStreaming" => ~streamingMode' ]_vars

\* The last part of C40, in ScaleManager: an id enters the streaming intent
\* only in a step that called the link's startStreaming() on a connected link
\* of the map.
IntentOnlyAfterLinkWasCalled ==
    [][ \A id \in ManagedIds :
            (id \in mgr'.streamingScales /\ id \notin mgr.streamingScales)
            => /\ Registered(mgr', id)
               /\ mgr'.scales[id].isConnected
               /\ id \in mgr'.last.called
               /\ mgr'.last.op \in {"startStreaming", "retryConnected", "staleRetry"} ]_vars

\* startStreaming() was rejected on a link that is not connected, no datagram
\* was sent, and the flag is set.
C40_FlagSetByRejectedStartReached ==
    /\ last.op = "startStreaming"
    /\ "Scale not connected" \in last.emits
    /\ "datagram" \notin last.emits
    /\ streamingMode
====
